---- MODULE Spec2Model ----
(***************************************************************************)
(* Verification model of voxels-rs (core crate): block stores, block-state *)
(* diff algebra, the VXL codec, grid readers, the any-format multiplexer   *)
(* and the shared peek-fork stream.                                        *)
(*                                                                         *)
(* Strings are sequences of one-character strings, so that parsing and     *)
(* formatting are computed character by character as the code does.        *)
(***************************************************************************)
EXTENDS Integers, Sequences, FiniteSets, TLC

VARIABLES
    \* ---- PagedBlockStore (store/blockstore.rs) ----
    boundary,        \* PagedBlockStore.boundary
    pages,           \* PagedBlockStore.pages : page key -> ArrayPage
    palette,         \* PagedBlockStore.palette (reverse_palette is its inverse)
    fixed_size,      \* PagedBlockStore.fixed_size
    bits,            \* <<bits_x, bits_y, bits_z>>
    \* ---- LazyPaletteBlockStoreWrapper ----
    temp_palette,    \* set of ids with a placeholder state
    actual_palette,  \* NoPalette or a function id -> state
    \* ---- observation of the store operations ----
    s_model,         \* position -> last state successfully set and not removed
    s_last,          \* the last call and its result
    s_ops,           \* number of calls made so far
    sparse,          \* a SparseBlockStore given the same calls: [boundary, data,
                     \* palette, res], res being what its last call returned
    \* ---- BlockState algebra (common.rs) ----
    a_str, b_str,    \* the two inputs of BlockState::from_string
    a_state, b_state,\* what from_string returned for them
    diff_str,        \* a.difference(b)
    updated,         \* a.update(a.difference(b))
    bs_pc,           \* "input", "rejected", "parsed", "diffed", "updated"
    \* ---- schematic writers and readers (stream/) ----
    w_kind,          \* which writer is under test: "vxl", "sponge" or "mojang"
    overflow_checks, \* the build panics on integer overflow (debug) or wraps
    writer,          \* the output stream object, its sink included
    w_completed,     \* a call of complete has returned Ok
    w_calls,         \* the write calls made so far: [blocks, res, after_complete]
    w_last,          \* the last call on the writer and what it did
    reader,          \* the input stream object, or NoReader
    r_blocks,        \* every block the reads have appended so far
    r_last,          \* the last read: [length, appended, res]
    \* ---- SharedStream and its VirtualReaders (stream/shared_stream.rs) ----
    inner,           \* the source: [data, off], off bytes of data handed out
    cache,           \* SharedStream.cache
    eof_reached,     \* SharedStream.eof_reached
    readers,         \* SharedStream.readers: [id, alive, pos] per Weak pointer
    vr_forked,       \* number of forks made so far; the readers are 1..vr_forked
    vr_early,        \* the readers forked before any byte was read
    vr_seen,         \* reader -> the bytes its reads have copied out
    vr_last,         \* the last read: [id, buf_len, n]
    \* ---- AnySchematicInputStream (stream/any_reader.rs) ----
    options,         \* AnySchematicInputStream.options: [stream, peek_buf]
    closed,          \* AnySchematicInputStream.closed
    mx_out,          \* every block the reads have appended to the caller's buffer
    mx_ended,        \* the options whose read has returned end-of-stream, [stream, raced]
    mx_last,         \* the last read: [length, appended, res, sole, peeked], with
                     \* the number of reads made and of peeked blocks handed out
    \* ---- readers of the four formats over a given file (stream/*_reader.rs) ----
    in_kind,         \* which reader is under test: "mojang", "sponge", "mcedit", "vxl"
    in_reader,       \* the input stream object, its source included
    in_blocks,       \* every block the reads have appended so far
    in_last,         \* the last read: [length, appended, res], with the number of reads
    \* ---- Boundary, AxisOrder and BoundaryIterator on their own (common.rs) ----
    it_boundary,     \* the boundary under test
    it_order,        \* the axis order under test
    it_iter,         \* it_boundary.iter(it_order), as the calls have left it
    it_shadow,       \* a second it_boundary.iter(it_order), only ever moved by next
    it_out,          \* the positions the calls on it_iter have returned
    it_mode,         \* "fresh", "next_only", "nth_first" (one nth, then next) or "mixed"
    it_k,            \* the argument of the first call when that was nth
    it_last,         \* the last call: [op, n, item, expected] or [op, pos, res]
    \* ---- VarInt encoders and decoders on their own (stream/) ----
    vi_value,        \* the i32 handed to the encoders
    vi_data,         \* the bytes handed to the decoders
    vi_from,         \* where vi_data comes from: "input", "vxl" or "sponge" (an encoder)
    vi_last          \* the last call: [op, res, consumed]

storeVars == <<boundary, pages, palette, fixed_size, bits, temp_palette,
               actual_palette, s_model, s_last, s_ops, sparse>>
stateVars == <<a_str, b_str, a_state, b_state, diff_str, updated, bs_pc>>

codecVars == <<w_kind, overflow_checks, writer, w_completed, w_calls, w_last,
               reader, r_blocks, r_last>>

sharedVars == <<inner, cache, eof_reached, readers, vr_forked, vr_early, vr_seen, vr_last>>
muxVars == <<options, closed, mx_out, mx_ended, mx_last>>
inputVars == <<in_kind, in_reader, in_blocks, in_last>>
geomVars == <<it_boundary, it_order, it_iter, it_shadow, it_out, it_mode, it_k, it_last>>
varintVars == <<vi_value, vi_data, vi_from, vi_last>>

nonStoreVars == <<stateVars, codecVars, sharedVars, muxVars, inputVars, geomVars, varintVars>>
nonStateVars == <<storeVars, codecVars, sharedVars, muxVars, inputVars, geomVars, varintVars>>
nonCodecVars == <<storeVars, stateVars, sharedVars, muxVars, inputVars, geomVars, varintVars>>
nonSharedVars == <<storeVars, stateVars, codecVars, muxVars, inputVars, geomVars, varintVars>>
nonMuxVars == <<storeVars, stateVars, codecVars, sharedVars, inputVars, geomVars, varintVars>>
nonInputVars == <<storeVars, stateVars, codecVars, sharedVars, muxVars, geomVars, varintVars>>

nonGeomVars == <<storeVars, stateVars, codecVars, sharedVars, muxVars, inputVars, varintVars>>
nonVarintVars == <<storeVars, stateVars, codecVars, sharedVars, muxVars, inputVars, geomVars>>

vars == <<storeVars, stateVars, codecVars, sharedVars, muxVars, inputVars, geomVars, varintVars>>

-----------------------------------------------------------------------------
(* Generic helpers *)

Min(a, b) == IF a < b THEN a ELSE b
Max(a, b) == IF a > b THEN a ELSE b

RECURSIVE Pow2Rec(_)
Pow2Rec(n) == IF n = 0 THEN 1 ELSE 2 * Pow2Rec(n - 1)
Pow2Table == [n \in 0..30 |-> Pow2Rec(n)]
Pow2(n) == Pow2Table[n]

\* bitwise OR of two non-negative integers
RECURSIVE BitOr(_, _)
BitOr(a, b) ==
    IF a = 0 THEN b
    ELSE IF b = 0 THEN a
    ELSE (IF (a % 2 = 1) \/ (b % 2 = 1) THEN 1 ELSE 0) + 2 * BitOr(a \div 2, b \div 2)

Ok(v)  == [ok |-> TRUE, val |-> v]
Err(m) == [ok |-> FALSE, val |-> m]
NoBlock == [absent |-> TRUE]     \* Option::None of a block state
Unit == [unit |-> TRUE]          \* the () of Ok(())
NoIndex == -1                    \* Option::None of a palette index

-----------------------------------------------------------------------------
(* Strings *)

minecraft == <<"m","i","n","e","c","r","a","f","t">>
COLON == <<":">>
sStone == <<"s","t","o","n","e">>
sDirt  == <<"d","i","r","t">>
sAir   == <<"a","i","r">>
sUnknown == <<"u","n","k","n","o","w","n">>
sId    == <<"i","d">>

DigitChars == <<"0","1","2","3","4","5","6","7","8","9">>

\* isize::to_string
RECURSIVE NatToString(_)
NatToString(n) ==
    IF n < 10 THEN <<DigitChars[n + 1]>>
    ELSE NatToString(n \div 10) \o <<DigitChars[(n % 10) + 1]>>

IntToString(n) == IF n < 0 THEN <<"-">> \o NatToString(-n) ELSE NatToString(n)

DigitValue(c) == CHOOSE d \in 0..9 : DigitChars[d + 1] = c
IsDigit(c) == \E d \in 1..10 : DigitChars[d] = c

RECURSIVE DigitsToNat(_, _)
DigitsToNat(s, acc) ==
    IF s = <<>> THEN acc
    ELSE DigitsToNat(Tail(s), acc * 10 + DigitValue(Head(s)))

\* str::parse::<isize>: optional sign, then at least one digit, nothing else
ParseInt(s) ==
    LET body == IF s # <<>> /\ Head(s) \in {"-", "+"} THEN Tail(s) ELSE s
    IN IF body = <<>> \/ \E i \in 1..Len(body) : ~IsDigit(body[i])
       THEN Err("Invalid temporary ID")
       ELSE IF s # <<>> /\ Head(s) = "-" THEN Ok(-DigitsToNat(body, 0))
       ELSE Ok(DigitsToNat(body, 0))

-----------------------------------------------------------------------------
(* Characters and string operations of the Rust standard library *)

\* the printable ASCII characters, code 32 first (quote, backslash and backtick by name)
Ascii == <<
    " ", "!", "<quote>", "#", "$", "%", "&", "'", "(", ")", "*", "+", ",", "-", ".", "/",
    "0", "1", "2", "3", "4", "5", "6", "7", "8", "9", ":", ";", "<", "=", ">", "?",
    "@", "A", "B", "C", "D", "E", "F", "G", "H", "I", "J", "K", "L", "M", "N", "O",
    "P", "Q", "R", "S", "T", "U", "V", "W", "X", "Y", "Z", "[", "<backslash>", "]", "^", "_",
    "<backtick>", "a", "b", "c", "d", "e", "f", "g", "h", "i", "j", "k", "l", "m", "n", "o",
    "p", "q", "r", "s", "t", "u", "v", "w", "x", "y", "z", "{", "|", "}", "~" >>

Ord(c) == 31 + (CHOOSE i \in 1..Len(Ascii) : Ascii[i] = c)
Chr(n) == Ascii[n - 31]

is_whitespace(c) == c = " "
is_ascii_alphanumeric(c) ==
    LET n == Ord(c) IN (n >= 48 /\ n <= 57) \/ (n >= 65 /\ n <= 90) \/ (n >= 97 /\ n <= 122)
\* 'a'..='z' | '0'..='9'
is_lower_or_digit(c) == LET n == Ord(c) IN (n >= 48 /\ n <= 57) \/ (n >= 97 /\ n <= 122)

\* str::find over a set of characters: 1-based index of the first, 0 if none
FindFirst(s, set) ==
    IF \E i \in 1..Len(s) : s[i] \in set
    THEN CHOOSE i \in 1..Len(s) : s[i] \in set /\ \A j \in 1..(i - 1) : s[j] \notin set
    ELSE 0

FindLast(s, set) ==
    IF \E i \in 1..Len(s) : s[i] \in set
    THEN CHOOSE i \in 1..Len(s) : s[i] \in set /\ \A j \in (i + 1)..Len(s) : s[j] \notin set
    ELSE 0

StrContains(s, c) == \E i \in 1..Len(s) : s[i] = c
CountChar(s, c) == Cardinality({i \in 1..Len(s) : s[i] = c})
StrFrom(s, i) == SubSeq(s, i, Len(s))       \* &s[i-1..]
StrTo(s, i) == SubSeq(s, 1, i)              \* &s[..i]

RECURSIVE SplitOn(_, _)
SplitOn(s, c) ==
    LET i == FindFirst(s, {c})
    IN IF i = 0 THEN <<s>> ELSE <<StrTo(s, i - 1)>> \o SplitOn(StrFrom(s, i + 1), c)

RECURSIVE TrimStart(_)
TrimStart(s) == IF s # <<>> /\ is_whitespace(Head(s)) THEN TrimStart(Tail(s)) ELSE s
RECURSIVE TrimEnd(_)
TrimEnd(s) ==
    IF s # <<>> /\ is_whitespace(s[Len(s)]) THEN TrimEnd(SubSeq(s, 1, Len(s) - 1)) ELSE s
Trim(s) == TrimEnd(TrimStart(s))

RECURSIVE StripWhitespace(_)
StripWhitespace(s) ==
    IF s = <<>> THEN <<>>
    ELSE IF is_whitespace(Head(s)) THEN StripWhitespace(Tail(s))
    ELSE <<Head(s)>> \o StripWhitespace(Tail(s))

StartsWith(s, c) == s # <<>> /\ Head(s) = c
EndsWith(s, c) == s # <<>> /\ s[Len(s)] = c

\* byte-wise order of two strings
RECURSIVE StrLess(_, _)
StrLess(a, b) ==
    IF b = <<>> THEN FALSE
    ELSE IF a = <<>> THEN TRUE
    ELSE IF Ord(Head(a)) < Ord(Head(b)) THEN TRUE
    ELSE IF Ord(Head(a)) > Ord(Head(b)) THEN FALSE
    ELSE StrLess(Tail(a), Tail(b))

\* Vec<String>::sort
RECURSIVE InsertSorted(_, _)
InsertSorted(sorted, x) ==
    IF sorted = <<>> THEN <<x>>
    ELSE IF StrLess(x, Head(sorted)) THEN <<x>> \o sorted
    ELSE <<Head(sorted)>> \o InsertSorted(Tail(sorted), x)
RECURSIVE SortStrings(_)
SortStrings(xs) == IF xs = <<>> THEN <<>> ELSE InsertSorted(SortStrings(Tail(xs)), Head(xs))

\* [String]::join
RECURSIVE Join(_, _)
Join(xs, sep) ==
    IF xs = <<>> THEN <<>>
    ELSE IF Len(xs) = 1 THEN xs[1]
    ELSE xs[1] \o sep \o Join(Tail(xs), sep)

-----------------------------------------------------------------------------
(* Geometry (common.rs) *)

Pos(x, y, z) == [x |-> x, y |-> y, z |-> z]

NewBoundary(mx, my, mz, dx, dy, dz) ==
    [min_x |-> mx, min_y |-> my, min_z |-> mz, d_x |-> dx, d_y |-> dy, d_z |-> dz]

new_from_min_max(mx, my, mz, Mx, My, Mz) ==
    NewBoundary(mx, my, mz, Mx - mx + 1, My - my + 1, Mz - mz + 1)

max_x(b) == b.min_x + b.d_x - 1
max_y(b) == b.min_y + b.d_y - 1
max_z(b) == b.min_z + b.d_z - 1

contains(b, p) ==
    /\ p.x >= b.min_x /\ p.x < b.min_x + b.d_x
    /\ p.y >= b.min_y /\ p.y < b.min_y + b.d_y
    /\ p.z >= b.min_z /\ p.z < b.min_z + b.d_z

\* i32 arithmetic: coordinates and extents are i32; a sum or difference past
\* the ends of the type wraps (a build with overflow checks panics instead).
\* The definitions above compute with plain integers, which is the same
\* as long as no result leaves the type; that holds whenever every operand
\* is in SmallRange.
MaxI32 == 2147483647
MinI32 == -MaxI32 - 1
SmallRange == (-Pow2(29))..Pow2(29)

AllSmall(b, p) ==
    {b.min_x, b.min_y, b.min_z, b.d_x, b.d_y, b.d_z, p.x, p.y, p.z} \subseteq SmallRange

AddOverflowsI32(a, b) == (b > 0 /\ a > MaxI32 - b) \/ (b < 0 /\ a < MinI32 - b)
SubOverflowsI32(a, b) == (b < 0 /\ a > MaxI32 + b) \/ (b > 0 /\ a < MinI32 + b)

AddI32(a, b) ==
    IF b > 0 /\ a > MaxI32 - b THEN (a + MinI32) + (b + MinI32)
    ELSE IF b < 0 /\ a < MinI32 - b THEN (a - MinI32) + (b - MinI32)
    ELSE a + b

SubI32(a, b) ==
    IF b < 0 /\ a > MaxI32 + b THEN (a + MinI32) - (b - MinI32)
    ELSE IF b > 0 /\ a < MinI32 + b THEN (a - MinI32) - (b + MinI32)
    ELSE a - b

\* expand_to_include past the first test, in wrapping i32 arithmetic:
\* max = min + d - 1, then d = max - min + 1 of new_from_min_max
WrappedHull(b, p) ==
    LET hull(mx, my, mz, Mx, My, Mz) ==
            NewBoundary(mx, my, mz, AddI32(SubI32(Mx, mx), 1), AddI32(SubI32(My, my), 1),
                        AddI32(SubI32(Mz, mz), 1))
    IN hull(Min(b.min_x, p.x), Min(b.min_y, p.y), Min(b.min_z, p.z),
            Max(SubI32(AddI32(b.min_x, b.d_x), 1), p.x),
            Max(SubI32(AddI32(b.min_y, b.d_y), 1), p.y),
            Max(SubI32(AddI32(b.min_z, b.d_z), 1), p.z))

\* some sum or difference of expand_to_include leaves the i32 range
ExpandOverflows(b, p) ==
    LET over(m, d, c) ==
            \/ AddOverflowsI32(m, d)
            \/ SubOverflowsI32(AddI32(m, d), 1)
            \/ SubOverflowsI32(Max(SubI32(AddI32(m, d), 1), c), Min(m, c))
            \/ AddOverflowsI32(SubI32(Max(SubI32(AddI32(m, d), 1), c), Min(m, c)), 1)
    IN /\ ~AllSmall(b, p)
       /\ \/ over(b.min_x, b.d_x, p.x)
          \/ over(b.min_y, b.d_y, p.y)
          \/ over(b.min_z, b.d_z, p.z)

expand_to_include(b, p) ==
    IF contains(b, p) THEN b
    ELSE IF ~AllSmall(b, p) THEN WrappedHull(b, p)
    ELSE new_from_min_max(Min(b.min_x, p.x), Min(b.min_y, p.y), Min(b.min_z, p.z),
                          Max(max_x(b), p.x), Max(max_y(b), p.y), Max(max_z(b), p.z))

-----------------------------------------------------------------------------
(* Block states *)

BlockStateNew(name, properties) == [name |-> name, properties |-> properties]
from_name(name) == BlockStateNew(name, <<>>)

\* BlockState::is_air
is_air(st) ==
    \/ st.name = minecraft \o COLON \o sAir
    \/ st.name = minecraft \o COLON \o <<"c","a","v","e","_">> \o sAir
    \/ st.name = minecraft \o COLON \o <<"v","o","i","d","_">> \o sAir

air == from_name(minecraft \o COLON \o sAir)

PropString(kv) == kv[1] \o <<"=">> \o kv[2]

\* BlockState::to_string
to_string(st) ==
    IF st.properties = <<>> THEN st.name
    ELSE st.name \o <<"[">>
         \o Join(SortStrings([i \in 1..Len(st.properties) |-> PropString(st.properties[i])]), <<",">>)
         \o <<"]">>

\* one "k=v" piece of the property list of from_string
ParseKv(kv) ==
    IF kv = <<>> \/ ~StrContains(kv, "=") THEN << <<>>, <<>> >>
    ELSE LET parts == SplitOn(kv, "=") IN <<Trim(parts[1]), Trim(parts[2])>>

PropCharsOk(x) == \A i \in 1..Len(x) : is_ascii_alphanumeric(x[i]) \/ x[i] \in {"_", "+", "-"}

Panic == [ok |-> FALSE, val |-> "panic"]

\* BlockState::from_string
from_string(input) ==
    IF ~StrContains(input, "[")
    THEN IF StrContains(input, "]") THEN Err("missing '['")
         ELSE IF Trim(input) = <<>> THEN Err("empty input")
         ELSE Ok(from_name(Trim(input)))
    ELSE IF CountChar(input, ":") # 1 THEN Err("must contain exactly one ':'")
    ELSE LET split_index == FindFirst(input, {"["})
             resource_location == StrTo(input, split_index - 1)
             parts == SplitOn(resource_location, ":")
             namespace == Trim(parts[1])
             type_name == Trim(parts[Len(parts)])
             type_properties_string == StrFrom(input, split_index + 1)
         IN IF \E i \in 1..Len(resource_location) :
                  ~(is_lower_or_digit(resource_location[i])
                    \/ resource_location[i] \in {"_", "/", ":"})
            THEN Err("illegal character")
            ELSE IF namespace = <<>> THEN Err("missing namespace")
            ELSE IF namespace # minecraft THEN Err("unsupported namespace")
            ELSE IF type_name = <<>> THEN Err("missing type name")
            ELSE IF type_properties_string = <<>> THEN Panic   \* [0..len - 1] with len = 0
            ELSE LET property_map ==
                        IF type_properties_string = <<"]">> THEN <<>>
                        ELSE LET kvs == SplitOn(StrTo(type_properties_string,
                                                      Len(type_properties_string) - 1), ",")
                             IN [i \in 1..Len(kvs) |-> ParseKv(kvs[i])]
                 IN IF \E i \in 1..Len(property_map) :
                          property_map[i][1] = <<>> \/ property_map[i][2] = <<>>
                    THEN Err("empty property key or value")
                    ELSE IF \E i \in 1..Len(property_map) :
                          ~PropCharsOk(property_map[i][1]) \/ ~PropCharsOk(property_map[i][2])
                    THEN Err("illegal character in property")
                    ELSE Ok(BlockStateNew(Trim(resource_location), property_map))

\* the part of a name before / after its first ':' as difference() takes them
NamespaceOf(name) ==
    LET i == FindFirst(name, {":"}) IN IF i = 0 THEN <<>> ELSE StrTo(name, i - 1)
TypeOf(name) ==
    LET i == FindFirst(name, {":"}) IN IF i = 0 THEN name ELSE StrFrom(name, i + 1)

HasKey(props, k) == \E i \in 1..Len(props) : props[i][1] = k
FirstWithKey(props, k) ==
    props[CHOOSE i \in 1..Len(props) : props[i][1] = k /\ \A j \in 1..(i - 1) : props[j][1] # k]

RECURSIVE DiffAdds(_, _, _)
DiffAdds(self, props, first) ==
    IF props = <<>> THEN <<>>
    ELSE LET kv == Head(props)
             changed == ~HasKey(self.properties, kv[1])
                        \/ FirstWithKey(self.properties, kv[1])[2] # kv[2]
         IN IF changed
            THEN (IF first THEN <<"+">> ELSE <<",">>) \o PropString(kv)
                 \o DiffAdds(self, Tail(props), FALSE)
            ELSE DiffAdds(self, Tail(props), first)

RECURSIVE DiffRemoves(_, _, _)
DiffRemoves(other, props, first) ==
    IF props = <<>> THEN <<>>
    ELSE LET k == Head(props)[1]
         IN IF ~HasKey(other.properties, k)
            THEN (IF first THEN <<"-">> ELSE <<",">>) \o k \o DiffRemoves(other, Tail(props), FALSE)
            ELSE DiffRemoves(other, Tail(props), first)

\* BlockState::difference
difference(self, other) ==
    LET name_part ==
          IF self.name # other.name
          THEN (IF NamespaceOf(other.name) # NamespaceOf(self.name)
                THEN NamespaceOf(other.name) ELSE <<>>)
               \o (IF NamespaceOf(other.name) # NamespaceOf(self.name)
                      \/ TypeOf(other.name) # TypeOf(self.name) THEN <<":">> ELSE <<>>)
               \o (IF TypeOf(other.name) # TypeOf(self.name) THEN TypeOf(other.name) ELSE <<>>)
          ELSE <<>>
    IN name_part \o DiffAdds(self, other.properties, TRUE)
                 \o DiffRemoves(other, self.properties, TRUE)

MaxDiffLen == 4096
MaxNameLen == 64
MaxDiffProps == 256

\* the pairs a '+' segment adds: pair.split_once('=')
RECURSIVE AddPairs(_)
AddPairs(pieces) ==
    IF pieces = <<>> THEN <<>>
    ELSE LET pr == Head(pieces)
             i == FindFirst(pr, {"="})
         IN (IF i = 0 THEN <<>> ELSE << <<StrTo(pr, i - 1), StrFrom(pr, i + 1)>> >>)
            \o AddPairs(Tail(pieces))

\* the segment loop of update: [add |-> pairs, remove |-> keys]
RECURSIVE UpdateSegments(_)
UpdateSegments(remaining) ==
    IF remaining = <<>> THEN [add |-> <<>>, remove |-> <<>>]
    ELSE LET sign == Head(remaining)
             rest == Tail(remaining)
             n == FindFirst(rest, {"+", "-"})
             segment == IF n = 0 THEN rest ELSE StrTo(rest, n - 1)
             after == UpdateSegments(IF n = 0 THEN <<>> ELSE StrFrom(rest, n))
         IN IF sign = "+"
            THEN [add |-> AddPairs(SplitOn(segment, ",")) \o after.add, remove |-> after.remove]
            ELSE IF sign = "-"
            THEN [add |-> after.add, remove |-> SplitOn(segment, ",") \o after.remove]
            ELSE after

DiffCharOk(c) == is_ascii_alphanumeric(c) \/ c \in {"_", "+", "-", "=", ":", ","}

\* BlockState::update
update(self, difference_in) ==
    IF Trim(difference_in) = <<>> THEN Ok(self)
    ELSE IF Len(difference_in) > MaxDiffLen THEN Err("length exceeds maximum")
    ELSE LET diff == StripWhitespace(difference_in)
             fs == FindFirst(diff, {"+", "-"})
             first_sign == IF fs = 0 THEN Len(diff) + 1 ELSE fs
             name_part == StrTo(diff, first_sign - 1)
             self_parts == SplitOn(self.name, ":")
             name1 == IF name_part = <<>> THEN self.name
                      ELSE IF StartsWith(name_part, ":") THEN self_parts[1] \o name_part
                      ELSE name_part
             new_name == IF name_part # <<>> /\ EndsWith(name1, ":")
                         THEN name1 \o self_parts[Len(self_parts)] ELSE name1
             seg == UpdateSegments(StrFrom(diff, first_sign))
             kept == SelectSeq(self.properties,
                        LAMBDA kv : (\A i \in 1..Len(seg.remove) : seg.remove[i] # kv[1])
                                    /\ ~HasKey(seg.add, kv[1]))
         IN IF \E i \in 1..Len(diff) : ~DiffCharOk(diff[i]) THEN Err("illegal character")
            ELSE IF name_part # <<>> /\ CountChar(name_part, ":") > 1
            THEN Err("at most one ':'")
            ELSE IF Len(new_name) > MaxNameLen THEN Err("new type name too long")
            ELSE IF Len(seg.add) > MaxDiffProps THEN Err("too many properties to add")
            ELSE IF Len(seg.remove) > MaxDiffProps THEN Err("too many properties to remove")
            ELSE Ok(BlockStateNew(new_name, kept \o seg.add))

stStone == from_name(minecraft \o COLON \o sStone)
stDirt  == from_name(minecraft \o COLON \o sDirt)

-----------------------------------------------------------------------------
(* Bounds and inputs of the store model *)

MaxOps == 3                   \* calls made on one store
ExpandLimit == 1024           \* _expand_or_throw: largest extent

\* coordinates of the positions used: below zero, zero, one and two pages up
XCoords == {0}
YCoords == {0, 8, 16}
ZCoords == {-1, 0}
Positions == {Pos(x, y, z) : x \in XCoords, y \in YCoords, z \in ZCoords}
StoreStates == {stStone, stDirt}
TempIds == {0, 1}

InitBoundaries == {NewBoundary(0, 0, -1, 1, 17, 2), NewBoundary(0, 0, 0, 1, 9, 1)}

\* positions far from every initial boundary: one extent past the limit of
\* _expand_or_throw, and the largest x an i32 holds
FarPositions == {Pos(ExpandLimit, 0, 0), Pos(MaxI32, 0, 0)}

-----------------------------------------------------------------------------
(* ArrayPage (store/paging.rs); data is kept sparsely: an index outside the
   domain of data holds 0, as in vec![0; size] *)

ArrayPageNew(sx, sy, sz) == [size_x |-> sx, size_y |-> sy, size_z |-> sz,
                             data |-> <<>>, nnz |-> 0]

\* ArrayPage::index for AxisOrder::XYZ, the only order the store uses
PageIndex(pg, x, y, z) ==
    LET index == x + y * pg.size_x + z * pg.size_x * pg.size_y
    IN IF index < 0 \/ index >= pg.size_x * pg.size_y * pg.size_z
       THEN Err("Index out of bounds") ELSE Ok(index)

PageCell(pg, idx) == IF idx \in DOMAIN pg.data THEN pg.data[idx] ELSE 0

PageLoad(pg, x, y, z) ==
    LET i == PageIndex(pg, x, y, z)
    IN IF ~i.ok THEN NoIndex
       ELSE IF PageCell(pg, i.val) = 0 THEN NoIndex ELSE PageCell(pg, i.val) - 1

PageStore(pg, x, y, z, state) ==
    LET i == PageIndex(pg, x, y, z)
    IN IF ~i.ok THEN Err("Index out of bounds")
       ELSE Ok([pg EXCEPT !.nnz = IF PageCell(pg, i.val) = 0 THEN @ + 1 ELSE @,
                          !.data = [k \in (DOMAIN pg.data) \cup {i.val} |->
                                      IF k = i.val THEN state + 1 ELSE pg.data[k]]])

PageErase(pg, x, y, z) ==
    LET i == PageIndex(pg, x, y, z)
    IN IF ~i.ok THEN Err("Index out of bounds")
       ELSE IF PageCell(pg, i.val) # 0
            THEN Ok([pg EXCEPT !.nnz = @ - 1,
                               !.data = [k \in (DOMAIN pg.data) \ {i.val} |-> pg.data[k]]])
            ELSE Err("No block to erase at given coordinates")

-----------------------------------------------------------------------------
(* PagedBlockStore (store/blockstore.rs) *)

RECURSIVE NextPow2From(_, _)
NextPow2From(n, p) == IF p >= n THEN p ELSE NextPow2From(n, 2 * p)
round_to_power_of_two(n) == NextPow2From(n, 1)

RECURSIVE TrailingZeros(_)
TrailingZeros(n) == IF n % 2 = 1 THEN 0 ELSE 1 + TrailingZeros(n \div 2)

BitsFor(req) == TrailingZeros(round_to_power_of_two(req))

\* (v as u32) >> b for an i32 v and b >= 1
ShrU32(v, b) == IF v >= 0 THEN v \div Pow2(b) ELSE Pow2(32 - b) + (v \div Pow2(b))
\* (v as u32) & ((1 << b) - 1)
MaskU32(v, b) == v % Pow2(b)

\* ((page_x as i64) << 40) | ((page_y as i64) << 20) | (page_z as i64), kept as
\* three limbs <<bits 40..63, bits 20..39, bits 0..19>> of the 64-bit key
PageKey(bts, p) ==
    LET px == ShrU32(p.x, bts[1])
        py == ShrU32(p.y, bts[2])
        pz == ShrU32(p.z, bts[3])
    IN <<BitOr(px % Pow2(24), py \div Pow2(20)),
         BitOr(py % Pow2(20), pz \div Pow2(20)),
         pz % Pow2(20)>>

PageSize(bts, axis) == Pow2(bts[axis])

\* get_or_add_palette_index: <<index, palette afterwards>>
PaletteIndexOf(pal, state) ==
    IF \E i \in 1..Len(pal) : pal[i] = state
    THEN <<(CHOOSE i \in 1..Len(pal) : pal[i] = state) - 1, pal>>
    ELSE <<Len(pal), Append(pal, state)>>

PaletteGet(pal, index) == IF index + 1 \in 1..Len(pal) THEN pal[index + 1] ELSE NoBlock

\* BlockStore::_expand_or_throw: the boundary afterwards, or an error
expand_or_throw(b, fixed, p) ==
    IF fixed /\ ~contains(b, p)
    THEN Err("Position out of bounds and store is not resizable")
    ELSE IF ~contains(b, p)
    THEN IF overflow_checks /\ ExpandOverflows(b, p) THEN Panic
         ELSE
         LET nb == expand_to_include(b, p)
         IN IF nb.d_x > ExpandLimit \/ nb.d_y > ExpandLimit \/ nb.d_z > ExpandLimit
            THEN Err("Cannot expand boundary beyond 1024 in any dimension")
            ELSE Ok(nb)
    ELSE Ok(b)

\* PagedBlockStore::block_at on a store value
PagedBlockAt(b, pgs, pal, bts, p) ==
    LET Loaded(idx) == IF idx = NoIndex THEN Ok(NoBlock) ELSE Ok(PaletteGet(pal, idx))
        Keyed(key) ==
            IF key \in DOMAIN pgs
            THEN Loaded(PageLoad(pgs[key], MaskU32(p.x, bts[1]),
                                 MaskU32(p.y, bts[2]), MaskU32(p.z, bts[3])))
            ELSE Ok(NoBlock)
    IN IF ~contains(b, p) THEN Err("Position out of bounds") ELSE Keyed(PageKey(bts, p))

block_at(p) == PagedBlockAt(boundary, pages, palette, bits, p)

\* the page map with the page of `key` present (entry(key).or_insert_with)
WithPage(pgs, bts, key) ==
    [k \in (DOMAIN pgs) \cup {key} |->
        IF k \in DOMAIN pgs THEN pgs[k]
        ELSE ArrayPageNew(PageSize(bts, 1), PageSize(bts, 2), PageSize(bts, 3))]

\* PagedBlockStore::set_block_at: the result and the store afterwards
PagedSetBlockAt(b, pgs, pal, bts, fixed, p, state) ==
    LET Stored(e, key, pi, pgs1, st) ==
            [res |-> IF st.ok THEN Ok(Unit) ELSE st,
             boundary |-> e.val,
             pages |-> IF st.ok THEN [pgs1 EXCEPT ![key] = st.val] ELSE pgs1,
             palette |-> pi[2]]
        Paged(e, key, pi, pgs1) ==
            Stored(e, key, pi, pgs1,
                   PageStore(pgs1[key], MaskU32(p.x, bts[1]), MaskU32(p.y, bts[2]),
                             MaskU32(p.z, bts[3]), pi[1]))
        Keyed(e, key) == Paged(e, key, PaletteIndexOf(pal, state), WithPage(pgs, bts, key))
        Expanded(e) ==
            IF ~e.ok THEN [res |-> e, boundary |-> b, pages |-> pgs, palette |-> pal]
            ELSE Keyed(e, PageKey(bts, p))
    IN Expanded(expand_or_throw(b, fixed, p))

\* PagedBlockStore::remove_block_at: the result and the store afterwards
PagedRemoveBlockAt(b, pgs, pal, bts, fixed, p) ==
    LET Erased(e, key, er) ==
            [res |-> IF er.ok THEN Ok(Unit) ELSE er,
             boundary |-> e.val,
             pages |-> IF er.ok THEN [pgs EXCEPT ![key] = er.val] ELSE pgs,
             palette |-> pal]
        Keyed(e, key) ==
            IF key \in DOMAIN pgs
            THEN Erased(e, key, PageErase(pgs[key], MaskU32(p.x, bts[1]),
                                          MaskU32(p.y, bts[2]), MaskU32(p.z, bts[3])))
            ELSE [res |-> Ok(Unit), boundary |-> e.val, pages |-> pgs, palette |-> pal]
        Expanded(e) ==
            IF ~e.ok THEN [res |-> e, boundary |-> b, pages |-> pgs, palette |-> pal]
            ELSE Keyed(e, PageKey(bts, p))
    IN Expanded(expand_or_throw(b, fixed, p))

\* PagedBlockStore::new
PagedNew(b, rx, ry, rz, fixed) ==
    [boundary |-> b, bits |-> <<BitsFor(rx), BitsFor(ry), BitsFor(rz)>>, fixed_size |-> fixed]

new_empty_resizable == PagedNew(NewBoundary(0, 0, 0, 0, 0, 0), 16, 16, 16, FALSE)

new_for_boundary(b, fixed) ==
    PagedNew(b, Max(b.d_x \div 8, 8), Max(b.d_y \div 8, 8), Max(b.d_z \div 8, 8), fixed)

\* SparseBlockStore::new; fixed_size is the flag of the paged store beside it
SparseNew(b) == [boundary |-> b, data |-> <<>>, palette |-> <<>>, res |-> Ok(Unit)]

\* SparseBlockStore::block_at
SparseBlockAt(sp, p) ==
    IF ~contains(sp.boundary, p) THEN Err("Position out of bounds")
    ELSE IF p \in DOMAIN sp.data THEN Ok(PaletteGet(sp.palette, sp.data[p]))
    ELSE Ok(NoBlock)

\* SparseBlockStore::set_block_at: the store afterwards
SparseSetBlockAt(sp, fixed, p, state) ==
    LET Inserted(e, pi) ==
            [boundary |-> e.val,
             data |-> [q \in (DOMAIN sp.data) \cup {p} |-> IF q = p THEN pi[1] ELSE sp.data[q]],
             palette |-> pi[2], res |-> Ok(Unit)]
        Expanded(e) ==
            IF ~e.ok THEN [sp EXCEPT !.res = e]
            ELSE Inserted(e, PaletteIndexOf(sp.palette, state))
    IN Expanded(expand_or_throw(sp.boundary, fixed, p))

\* SparseBlockStore::remove_block_at: the store afterwards
SparseRemoveBlockAt(sp, fixed, p) ==
    LET Expanded(e) ==
            IF ~e.ok THEN [sp EXCEPT !.res = e]
            ELSE [sp EXCEPT !.boundary = e.val,
                            !.data = [q \in (DOMAIN sp.data) \ {p} |-> sp.data[q]],
                            !.res = Ok(Unit)]
    IN Expanded(expand_or_throw(sp.boundary, fixed, p))

-----------------------------------------------------------------------------
(* LazyPaletteBlockStoreWrapper over a PagedBlockStore *)

NoPalette == [set |-> FALSE]
SomePalette(m) == [set |-> TRUE, map |-> m]

\* temp_state_from_temp_id: <<state, temp palette afterwards>>
temp_state_from_temp_id(tp, id) ==
    IF id \in DOMAIN tp THEN <<tp[id], tp>>
    ELSE LET st == BlockStateNew(sUnknown, << <<sId, IntToString(id)>> >>)
         IN <<st, [k \in (DOMAIN tp) \cup {id} |-> IF k = id THEN st ELSE tp[k]]>>

\* LazyPaletteBlockStoreWrapper::block_at
LazyBlockAt(b, pgs, pal, bts, ap, p) ==
    IF ~ap.set THEN Err("Can not access blocks if palette is not provided")
    ELSE LET r == PagedBlockAt(b, pgs, pal, bts, p)
         IN IF ~r.ok THEN r
            ELSE IF r.val = NoBlock THEN Ok(NoBlock)
            ELSE LET id == ParseInt(r.val.properties[1][2])
                 IN IF ~id.ok THEN id
                    ELSE IF id.val \in DOMAIN ap.map THEN Ok(ap.map[id.val])
                    ELSE Err("Temporary ID not found in actual palette")

lazy_block_at(p) == LazyBlockAt(boundary, pages, palette, bits, actual_palette, p)

\* the palettes a caller may bind: every map from some of the ids to states
ActualPalettes == UNION {[d -> StoreStates] : d \in SUBSET TempIds}

-----------------------------------------------------------------------------
(* Specification of the paged store: construction, then calls *)

\* the block-state algebra is not exercised
StateIdle ==
    /\ a_str = <<>> /\ b_str = <<>>
    /\ a_state = Err("unset") /\ b_state = Err("unset")
    /\ diff_str = <<>>
    /\ updated = Err("unset")
    /\ bs_pc = "idle"

NoReader == [absent |-> TRUE]
NoCall == [op |-> "none", res |-> Ok(Unit)]

\* no writer or reader is exercised
WritersIdle ==
    /\ w_kind = "none"
    /\ writer = [absent |-> TRUE]
    /\ w_completed = FALSE
    /\ w_calls = <<>>
    /\ w_last = NoCall
    /\ reader = NoReader
    /\ r_blocks = <<>>
    /\ r_last = NoCall

CodecIdle == WritersIdle /\ overflow_checks = FALSE

\* no shared stream is exercised
SharedIdle ==
    /\ inner = [data |-> <<>>, off |-> 0]
    /\ cache = <<>>
    /\ eof_reached = FALSE
    /\ readers = <<>>
    /\ vr_forked = 0
    /\ vr_early = {}
    /\ vr_seen = <<>>
    /\ vr_last = NoCall

\* no multiplexer is exercised
MuxIdle ==
    /\ options = <<>>
    /\ closed = FALSE
    /\ mx_out = <<>>
    /\ mx_ended = {}
    /\ mx_last = NoCall

\* no reader over a given file is exercised
InputIdle ==
    /\ in_kind = "none"
    /\ in_reader = NoReader
    /\ in_blocks = <<>>
    /\ in_last = NoCall

\* no boundary is exercised on its own
GeomIdle ==
    /\ it_boundary = NewBoundary(0, 0, 0, 0, 0, 0)
    /\ it_order = "XYZ"
    /\ it_iter = NoReader
    /\ it_shadow = NoReader
    /\ it_out = <<>>
    /\ it_mode = "none"
    /\ it_k = 0
    /\ it_last = NoCall

\* no VarInt is encoded or decoded on its own
VarIntIdle ==
    /\ vi_value = 0
    /\ vi_data = <<>>
    /\ vi_from = "none"
    /\ vi_last = NoCall

StreamsIdle == SharedIdle /\ MuxIdle /\ InputIdle /\ GeomIdle /\ VarIntIdle

StoreInitWith(st) ==
    /\ boundary = st.boundary
    /\ bits = st.bits
    /\ fixed_size = st.fixed_size
    /\ pages = <<>>
    /\ palette = <<>>
    /\ temp_palette = <<>>
    /\ actual_palette = NoPalette
    /\ s_model = [p \in Positions \cup FarPositions |-> NoBlock]
    /\ s_last = [op |-> "new", pos |-> Pos(0, 0, 0), res |-> Ok(Unit)]
    /\ s_ops = 0
    /\ sparse = SparseNew(st.boundary)

Init ==
    /\ StateIdle
    /\ WritersIdle
    /\ overflow_checks \in BOOLEAN
    /\ StreamsIdle
    /\ \/ StoreInitWith(new_empty_resizable)
       \/ \E b \in InitBoundaries, f \in BOOLEAN : StoreInitWith(new_for_boundary(b, f))

SetBlockAt(p, state) ==
    /\ s_ops < MaxOps
    /\ s_last.res # Panic
    /\ \E r \in {PagedSetBlockAt(boundary, pages, palette, bits, fixed_size, p, state)} :
          /\ boundary' = r.boundary
          /\ pages' = r.pages
          /\ palette' = r.palette
          /\ s_model' = IF r.res.ok THEN [s_model EXCEPT ![p] = state] ELSE s_model
          /\ s_last' = [op |-> "set", pos |-> p, res |-> r.res]
    /\ sparse' = SparseSetBlockAt(sparse, fixed_size, p, state)
    /\ s_ops' = s_ops + 1
    /\ UNCHANGED <<fixed_size, bits, temp_palette, actual_palette>>
    /\ UNCHANGED nonStoreVars

RemoveBlockAt(p) ==
    /\ s_ops < MaxOps
    /\ s_last.res # Panic
    /\ \E r \in {PagedRemoveBlockAt(boundary, pages, palette, bits, fixed_size, p)} :
          /\ boundary' = r.boundary
          /\ pages' = r.pages
          /\ palette' = r.palette
          /\ s_model' = IF r.res.ok THEN [s_model EXCEPT ![p] = NoBlock] ELSE s_model
          /\ s_last' = [op |-> "remove", pos |-> p, res |-> r.res]
    /\ sparse' = SparseRemoveBlockAt(sparse, fixed_size, p)
    /\ s_ops' = s_ops + 1
    /\ UNCHANGED <<fixed_size, bits, temp_palette, actual_palette>>
    /\ UNCHANGED nonStoreVars

BlockAt(p) ==
    /\ s_ops < MaxOps
    /\ s_last.res # Panic
    /\ s_last' = [op |-> "get", pos |-> p, res |-> block_at(p)]
    /\ sparse' = [sparse EXCEPT !.res = SparseBlockAt(sparse, p)]
    /\ s_ops' = s_ops + 1
    /\ UNCHANGED <<boundary, pages, palette, fixed_size, bits, temp_palette,
                   actual_palette, s_model>>
    /\ UNCHANGED nonStoreVars

Next ==
    \/ \E p \in Positions \cup FarPositions, st \in StoreStates : SetBlockAt(p, st)
    \/ \E p \in Positions : RemoveBlockAt(p)
    \/ \E p \in Positions : BlockAt(p)

Spec == Init /\ [][Next]_vars

\* C1: in a PagedBlockStore, after any successful set_block_at / remove_block_at
\* calls, block_at(p) for every position p inside the boundary is the state of
\* the most recent set_block_at(p, s) not followed by remove_block_at(p), and
\* absent otherwise; writes to other positions never change it.
C1_BlockAtIsLastWrite ==
    \A p \in Positions : contains(boundary, p) => block_at(p) = Ok(s_model[p])

\* a boundary whose extents are within the limit of _expand_or_throw
WithinLimit(b) ==
    b.d_x \in 0..ExpandLimit /\ b.d_y \in 0..ExpandLimit /\ b.d_z \in 0..ExpandLimit

\* every extent max - min + 1 of b expanded to include p, taken as an integer
\* of any size, is at most limit (b within the limit, so that no sum here
\* leaves the i32 range)
ExpandedExtentsAtMost(b, p, limit) ==
    LET Fits(m, d, c) == Max(m + d - 1, c) - limit < Min(m, c)
    IN /\ Fits(b.min_x, b.d_x, p.x)
       /\ Fits(b.min_y, b.d_y, p.y)
       /\ Fits(b.min_z, b.d_z, p.z)

\* C11: on a resizable store, set_block_at(p, s) with p outside the boundary
\* succeeds only if the boundary expanded to include p has every extent at
\* most 1024; otherwise, and for every out-of-bounds p on a store that is not
\* resizable, it returns an error and leaves the boundary, the palette and
\* every cell unchanged.
C11_SetOutsideRespectsLimit ==
    [][(/\ s_ops' = s_ops + 1
        /\ s_last'.op = "set"
        /\ WithinLimit(boundary)
        /\ ~contains(boundary, s_last'.pos)) =>
          /\ s_last'.res.ok =>
                /\ ~fixed_size
                /\ ExpandedExtentsAtMost(boundary, s_last'.pos, ExpandLimit)
          /\ (fixed_size \/ ~ExpandedExtentsAtMost(boundary, s_last'.pos, ExpandLimit)) =>
                /\ ~s_last'.res.ok
                /\ s_last'.res # Panic
                /\ boundary' = boundary
                /\ palette' = palette
                /\ pages' = pages
      ]_vars

\* the two results are the same success with the same value, or the same error
SameResult(r1, r2) ==
    /\ r1.ok = r2.ok
    /\ r1.val = r2.val

\* C27: SparseBlockStore and PagedBlockStore are observationally equivalent.
\* Created with the same boundary and resizable flag and given the same
\* set_block_at, remove_block_at and block_at calls, every call returns the
\* same result in both and both report the same boundary afterwards, a
\* remove_block_at on a cell that holds no block included.
C27_SparseAndPagedAgree ==
    s_last.op \in {"set", "remove", "get"} =>
        /\ SameResult(s_last.res, sparse.res)
        /\ boundary = sparse.boundary

\* C28: remove_block_at never changes a store's boundary or palette; on a
\* resizable store, removing at a position outside the boundary leaves the
\* boundary as it was.
C28_RemoveKeepsBoundaryAndPalette ==
    [][(s_ops' = s_ops + 1 /\ s_last'.op = "remove") =>
          /\ boundary' = boundary
          /\ palette' = palette
          /\ sparse'.boundary = sparse.boundary
          /\ sparse'.palette = sparse.palette
      ]_vars

-----------------------------------------------------------------------------
(* Specification of the lazy-palette wrapper over a paged store *)

LazySizes == {<<1, 17, 1>>, <<1, 9, 2>>}

\* LazyPaletteBlockStoreWrapper::empty_resizable_from_size / empty_fixed_from_size
empty_from_size(sz, fixed) ==
    new_for_boundary(NewBoundary(0, 0, 0, sz[1], sz[2], sz[3]), fixed)

InitLazy ==
    /\ StateIdle
    /\ CodecIdle
    /\ StreamsIdle
    /\ \E sz \in LazySizes, f \in BOOLEAN : StoreInitWith(empty_from_size(sz, f))

SetUnknownBlock(p, id) ==
    /\ s_ops < MaxOps
    /\ \E t \in {temp_state_from_temp_id(temp_palette, id)} :
       \E r \in {PagedSetBlockAt(boundary, pages, palette, bits, fixed_size, p, t[1])} :
          /\ temp_palette' = t[2]
          /\ boundary' = r.boundary
          /\ pages' = r.pages
          /\ palette' = r.palette
          /\ s_model' = IF r.res.ok THEN [s_model EXCEPT ![p] = [id |-> id]] ELSE s_model
          /\ s_last' = [op |-> "set_unknown", pos |-> p, res |-> r.res]
    /\ s_ops' = s_ops + 1
    /\ UNCHANGED <<fixed_size, bits, actual_palette, sparse>>
    /\ UNCHANGED nonStoreVars

LazyRemoveBlockAt(p) ==
    /\ RemoveBlockAt(p)

SetActualPalette(m) ==
    /\ s_ops < MaxOps
    /\ actual_palette' = SomePalette(m)
    /\ s_last' = [op |-> "set_palette", pos |-> Pos(0, 0, 0), res |-> Ok(Unit)]
    /\ s_ops' = s_ops + 1
    /\ UNCHANGED <<boundary, pages, palette, fixed_size, bits, temp_palette, s_model,
                   sparse>>
    /\ UNCHANGED nonStoreVars

LazyBlockAtCall(p) ==
    /\ s_ops < MaxOps
    /\ s_last' = [op |-> "lazy_get", pos |-> p, res |-> lazy_block_at(p)]
    /\ s_ops' = s_ops + 1
    /\ UNCHANGED <<boundary, pages, palette, fixed_size, bits, temp_palette,
                   actual_palette, s_model, sparse>>
    /\ UNCHANGED nonStoreVars

NextLazy ==
    \/ \E p \in Positions, id \in TempIds : SetUnknownBlock(p, id)
    \/ \E p \in Positions : LazyRemoveBlockAt(p)
    \/ \E m \in ActualPalettes : SetActualPalette(m)
    \/ \E p \in Positions : LazyBlockAtCall(p)

SpecLazy == InitLazy /\ [][NextLazy]_vars

\* C10: the lazy wrapper's block_at fails while no actual palette is set; once
\* set_actual_palette(m) was called, block_at(p) of a position written with
\* set_unknown_block(p, id) is exactly m[id] when id is a key of m and fails
\* otherwise, whether the palette came before or after the write; a position
\* of the boundary never written, or removed, is absent.
C10_LazyResolvesWrittenId ==
    /\ ~actual_palette.set => \A p \in Positions : ~lazy_block_at(p).ok
    /\ actual_palette.set =>
          \A p \in Positions :
             IF s_model[p] = NoBlock
             THEN contains(boundary, p) => lazy_block_at(p) = Ok(NoBlock)
             ELSE IF s_model[p].id \in DOMAIN actual_palette.map
                  THEN lazy_block_at(p) = Ok(actual_palette.map[s_model[p].id])
                  ELSE ~lazy_block_at(p).ok

-----------------------------------------------------------------------------
(* Specification of the block-state algebra: two strings are parsed with
   from_string, then a.difference(b) is taken and applied to a with update *)

sA == <<"a">>
sB == <<"b">>
s1 == <<"1">>
s2 == <<"2">>

\* names with and without a namespace; from_string accepts both when no
\* property list follows, and only namespaced ones before a '['
InputNames == {sStone, sDirt, minecraft \o COLON \o sStone, minecraft \o COLON \o sDirt}
InputPropLists == {<<"[">> \o sA \o <<"=">> \o s1 \o <<"]">>,
                   <<"[">> \o sA \o <<"=">> \o s2 \o <<"]">>,
                   <<"[">> \o sB \o <<"=">> \o s1 \o <<"]">>,
                   <<"[">> \o sA \o <<"=">> \o s1 \o <<",">> \o sB \o <<"=">> \o s2 \o <<"]">>,
                   <<"[">> \o sB \o <<"=">> \o s2 \o <<",">> \o sA \o <<"=">> \o s1 \o <<"]">>}
InputStrings == InputNames \cup {n \o l : n \in InputNames, l \in InputPropLists}

\* the store is not exercised
StoreIdle == StoreInitWith(new_empty_resizable)

InitState ==
    /\ StoreIdle
    /\ CodecIdle
    /\ StreamsIdle
    /\ a_str \in InputStrings /\ b_str \in InputStrings
    /\ a_state = Err("unset") /\ b_state = Err("unset")
    /\ diff_str = <<>>
    /\ updated = Err("unset")
    /\ bs_pc = "input"

\* BlockState::from_string on both inputs
FromString ==
    /\ bs_pc = "input"
    /\ a_state' = from_string(a_str)
    /\ b_state' = from_string(b_str)
    /\ bs_pc' = IF a_state'.ok /\ b_state'.ok THEN "parsed" ELSE "rejected"
    /\ UNCHANGED <<a_str, b_str, diff_str, updated>>
    /\ UNCHANGED nonStateVars

\* a.difference(&b)
Difference ==
    /\ bs_pc = "parsed"
    /\ diff_str' = difference(a_state.val, b_state.val)
    /\ bs_pc' = "diffed"
    /\ UNCHANGED <<a_str, b_str, a_state, b_state, updated>>
    /\ UNCHANGED nonStateVars

\* a.update(diff)
Update ==
    /\ bs_pc = "diffed"
    /\ updated' = update(a_state.val, diff_str)
    /\ bs_pc' = "updated"
    /\ UNCHANGED <<a_str, b_str, a_state, b_state, diff_str>>
    /\ UNCHANGED nonStateVars

NextState ==
    \/ FromString
    \/ Difference
    \/ Update

SpecState == InitState /\ [][NextState]_vars

\* the properties of a state as a set of <<key, value>> pairs
PropSet(st) == {st.properties[i] : i \in 1..Len(st.properties)}

\* C2: for all block states a and b accepted by from_string,
\* a.update(a.difference(b)) succeeds and has the name of b and the same
\* properties as b.
C2_UpdateOfDifferenceIsTarget ==
    bs_pc = "updated" =>
        /\ updated.ok
        /\ updated.val.name = b_state.val.name
        /\ PropSet(updated.val) = PropSet(b_state.val)

\* BlockState::hash: what BlockState::new feeds to the DefaultHasher, the name
\* and then each key and value in the order of the property vector (str::hash
\* ends every string with the byte 0xFF); cached_hash is the digest of this
\* sequence, and two states fed the same sequence have the same cached_hash
hash(name, properties) ==
    LET Fed(str) == [i \in 1..Len(str) |-> Ord(str[i])] \o <<255>>
        RECURSIVE Feed(_, _)
        Feed(acc, i) ==
            IF i > Len(properties) THEN acc
            ELSE Feed(acc \o Fed(properties[i][1]) \o Fed(properties[i][2]), i + 1)
    IN Feed(Fed(name), 1)

cached_hash(st) == hash(st.name, st.properties)

\* impl PartialEq for BlockState
eq(st, other) ==
    /\ cached_hash(st) = cached_hash(other)
    /\ st.name = other.name
    /\ st.properties = other.properties

\* how many times the pair kv is among the properties of st
PropCount(st, kv) == Cardinality({i \in 1..Len(st.properties) : st.properties[i] = kv})

SameMultiset(st, other) ==
    \A kv \in PropSet(st) \cup PropSet(other) : PropCount(st, kv) = PropCount(other, kv)

\* C12: two BlockStates with the same name and the same multiset of
\* (key, value) properties are equal and have the same hash, whatever the
\* order in which their properties were inserted.
C12_EqualityIgnoresPropertyOrder ==
    (bs_pc = "parsed" /\ a_state.val.name = b_state.val.name
                     /\ SameMultiset(a_state.val, b_state.val)) =>
        /\ eq(a_state.val, b_state.val)
        /\ cached_hash(a_state.val) = cached_hash(b_state.val)

-----------------------------------------------------------------------------
(* Axis orders and the traversal of a boundary (common.rs) *)

NoPos == [absent |-> TRUE]     \* Option::None of a position

AxisOrders == {"XYZ", "XZY", "YXZ", "YZX", "ZXY", "ZYX"}

\* AxisOrder::axis
axis(order) ==
    CASE order = "XYZ" -> <<"X", "Y", "Z">>
      [] order = "XZY" -> <<"X", "Z", "Y">>
      [] order = "YXZ" -> <<"Y", "X", "Z">>
      [] order = "YZX" -> <<"Y", "Z", "X">>
      [] order = "ZXY" -> <<"Z", "X", "Y">>
      [] order = "ZYX" -> <<"Z", "Y", "X">>

\* BlockPosition::select / select_set
select(p, a) == CASE a = "X" -> p.x [] a = "Y" -> p.y [] a = "Z" -> p.z
select_set(p, a, v) ==
    CASE a = "X" -> [p EXCEPT !.x = v]
      [] a = "Y" -> [p EXCEPT !.y = v]
      [] a = "Z" -> [p EXCEPT !.z = v]

\* Boundary::select_min / select_max and the extent along an axis
select_min(b, a) == CASE a = "X" -> b.min_x [] a = "Y" -> b.min_y [] a = "Z" -> b.min_z
select_max(b, a) == CASE a = "X" -> max_x(b) [] a = "Y" -> max_y(b) [] a = "Z" -> max_z(b)
select_dim(b, a) == CASE a = "X" -> b.d_x [] a = "Y" -> b.d_y [] a = "Z" -> b.d_z

\* an index that lets the first axis of the order vary fastest
IndexFirstAxisFastest(order, p, b) ==
    LET ax == axis(order)
        coord(i) == select(p, ax[i]) - select_min(b, ax[i])
        dim(i) == select_dim(b, ax[i])
    IN (coord(3) * dim(2) + coord(2)) * dim(1) + coord(1)

\* AxisOrder::index: index = index * dim + coord over the three axes
index(order, p, b) ==
    LET ax == axis(order)
        coord(i) == select(p, ax[i]) - select_min(b, ax[i])
        dim(i) == select_dim(b, ax[i])
    IN ((0 * dim(1) + coord(1)) * dim(2) + coord(2)) * dim(3) + coord(3)

\* Region::iter for a Boundary: a fresh BoundaryIterator
BoundaryIter(b) == [current |-> Pos(b.min_x, b.min_y, b.min_z), done |-> FALSE]

\* the loop over the outer axes of BoundaryIterator::next; k walks the axes
\* from the middle one (2) to the first (1)
RECURSIVE IterCarry(_, _, _, _)
IterCarry(b, ax, it, k) ==
    IF k = 0 THEN it
    ELSE LET nxt == select(it.current, ax[k]) + 1
         IN IF nxt > select_max(b, ax[k])
            THEN IF k = 1 THEN [it EXCEPT !.done = TRUE]
                 ELSE IterCarry(b, ax,
                         [it EXCEPT !.current = select_set(@, ax[k], select_min(b, ax[k]))],
                         k - 1)
            ELSE [it EXCEPT !.current = select_set(@, ax[k], nxt)]

\* BoundaryIterator::next: [item, it]
IterNext(b, order, it) ==
    IF it.done THEN [item |-> NoPos, it |-> it]
    ELSE LET ax == axis(order)
             next_val == select(it.current, ax[3]) + 1
         IN IF next_val <= select_max(b, ax[3])
            THEN [item |-> it.current,
                  it |-> [it EXCEPT !.current = select_set(@, ax[3], next_val)]]
            ELSE [item |-> it.current,
                  it |-> IterCarry(b, ax,
                            [it EXCEPT !.current = select_set(@, ax[3], select_min(b, ax[3]))],
                            2)]

\* the result of discarding n results of next and taking the following one
RECURSIVE NextAfter(_, _, _, _)
NextAfter(b, order, it, n) ==
    IF n = 0 THEN IterNext(b, order, it)
    ELSE NextAfter(b, order, IterNext(b, order, it).it, n - 1)

\* nth that returns the position one further than asked
IterNthOneFurther(b, order, it, n) ==
    LET r == NextAfter(b, order, it, n + 1) IN [item |-> r.item, it |-> r.it]

\* the closure reconstruct of BoundaryIterator::nth
Reconstruct(b, ax, strides, cur, idx) ==
    LET c1 == idx \div strides[1]
        r1 == idx % strides[1]
        c2 == r1 \div strides[2]
        r2 == r1 % strides[2]
        c3 == r2 \div strides[3]
    IN select_set(select_set(select_set(cur, ax[1], c1 + select_min(b, ax[1])),
                             ax[2], c2 + select_min(b, ax[2])),
                  ax[3], c3 + select_min(b, ax[3]))

\* BoundaryIterator::nth: [item, it]
IterNth(b, order, it, n) ==
    IF it.done THEN [item |-> NoPos, it |-> it]
    ELSE LET ax == axis(order)
             lengths == [i \in 1..3 |-> select_max(b, ax[i]) - select_min(b, ax[i]) + 1]
             strides == <<lengths[2] * lengths[3], lengths[3], 1>>
             total_size == strides[1] * lengths[1]
             current_index ==
                 (select(it.current, ax[1]) - select_min(b, ax[1])) * strides[1]
                 + (select(it.current, ax[2]) - select_min(b, ax[2])) * strides[2]
                 + (select(it.current, ax[3]) - select_min(b, ax[3])) * strides[3]
             target_index == current_index + n
         IN IF target_index >= total_size
            THEN [item |-> NoPos, it |-> [it EXCEPT !.done = TRUE]]
            ELSE [item |-> Reconstruct(b, ax, strides, it.current, target_index),
                  it |-> IF target_index + 1 >= total_size
                         THEN [it EXCEPT !.done = TRUE]
                         ELSE [it EXCEPT !.current =
                                  Reconstruct(b, ax, strides, it.current, target_index + 1)]]

\* Iterator::skip(n) over a BoundaryIterator: sk = [it, n]; the first next()
\* of a Skip with n > 0 is nth(n), every other one is next()
SkipNext(b, order, sk) ==
    IF sk.n > 0
    THEN LET r == IterNth(b, order, sk.it, sk.n) IN [item |-> r.item, sk |-> [it |-> r.it, n |-> 0]]
    ELSE LET r == IterNext(b, order, sk.it) IN [item |-> r.item, sk |-> [it |-> r.it, n |-> 0]]

\* every position boundary.iter(order) yields, in order
RECURSIVE IterCollect(_, _, _)
IterCollect(b, order, it) ==
    LET r == IterNext(b, order, it)
    IN IF r.item = NoPos THEN <<>> ELSE <<r.item>> \o IterCollect(b, order, r.it)

IterAll(b, order) == IterCollect(b, order, BoundaryIter(b))

-----------------------------------------------------------------------------
(* Bytes and variable-length integers *)

\* str::as_bytes and String::from_utf8 (ASCII only; a byte above 127 would
\* start a multi-byte sequence, which no string written here contains)
as_bytes(s) == [i \in 1..Len(s) |-> Ord(s[i])]
from_utf8(bytes) ==
    IF \E i \in 1..Len(bytes) : bytes[i] < 32 \/ bytes[i] > 126
    THEN Err("invalid utf-8")
    ELSE Ok([i \in 1..Len(bytes) |-> Chr(bytes[i])])

\* the bytes write_var_int stores for a value that is not negative
RECURSIVE VarIntBytes(_)
VarIntBytes(value) ==
    IF value \div 128 = 0 THEN <<value>>
    ELSE <<(value % 128) + 128>> \o VarIntBytes(value \div 128)

\* the bytes write_var_long stores; an i64 is kept as its base-128 digits,
\* least significant first
VarLongBytes(digits) ==
    [i \in 1..Len(digits) |-> IF i < Len(digits) THEN digits[i] + 128 ELSE digits[i]]

\* MAGIC_NUMBER = 0x56584C44524D in base 128
MAGIC_NUMBER == <<77, 36, 17, 98, 4, 75, 21>>
VERSION == 1

-----------------------------------------------------------------------------
(* VXLSchematicOutputStream (stream/vxl_writer.rs).  A writer is a record
   [out, running_palette, header_written, closed, axis_order, boundary,
    written_blocks, panic]: out is what the sink received, running_palette the
   states in the order they were inserted (the i-th has id 2 * i), and panic
   tells that a call unwound.  A usize is kept as the signed number congruent
   to it modulo 2^64. *)

\* a < b on usize
ULess(a, b) == IF (a < 0) = (b < 0) THEN a < b ELSE b < 0
\* a + b on usize leaves the range
UAddOverflows(a, b) ==
    \/ a < 0 /\ b < 0
    \/ (a < 0) # (b < 0) /\ a + b >= 0

\* VXLSchematicOutputStream::new
VxlWriterNew(order, b) ==
    [out |-> <<>>, running_palette |-> <<>>, header_written |-> FALSE, closed |-> FALSE,
     axis_order |-> order, boundary |-> b, written_blocks |-> 0, panic |-> FALSE]

\* write_var_int: a negative value never satisfies (value & !0x7F) == 0 under
\* the arithmetic shift, so the loop runs off the 5-byte buffer and panics
write_var_int(w, value) ==
    IF w.panic THEN w
    ELSE IF value < 0 THEN [w EXCEPT !.panic = TRUE]
    ELSE [w EXCEPT !.out = @ \o VarIntBytes(value)]

write_var_long(w, digits) ==
    IF w.panic THEN w ELSE [w EXCEPT !.out = @ \o VarLongBytes(digits)]

write_string(w, value) ==
    LET write_all(w1) == IF w1.panic THEN w1 ELSE [w1 EXCEPT !.out = @ \o as_bytes(value)]
    IN write_all(write_var_int(w, Len(value)))

write_boundary(w, b) ==
    write_var_int(write_var_int(write_var_int(
        write_var_int(write_var_int(write_var_int(w, b.min_x), b.min_y), b.min_z),
        max_x(b)), max_y(b)), max_z(b))

AxisOrderByte(order) ==
    CASE order = "XYZ" -> 0 [] order = "XZY" -> 1 [] order = "YXZ" -> 2
      [] order = "YZX" -> 3 [] order = "ZXY" -> 4 [] order = "ZYX" -> 5

write_axis_order(w, order) ==
    IF w.panic THEN w ELSE [w EXCEPT !.out = @ \o <<AxisOrderByte(order)>>]

\* write_header: [w, res]
write_header(w) ==
    LET written(w1) ==
            IF w1.panic THEN [w |-> w1, res |-> Panic]
            ELSE [w |-> [w1 EXCEPT !.header_written = TRUE], res |-> Ok(Unit)]
    IN IF w.header_written THEN [w |-> w, res |-> Err("VXL: Header already written")]
       ELSE written(write_axis_order(
                write_boundary(write_var_int(write_var_long(w, MAGIC_NUMBER), VERSION),
                               w.boundary),
                w.axis_order))

\* running_palette.get(state): the id, or 0 when the state has none
RunningPaletteGet(pal, state) ==
    IF \E i \in 1..Len(pal) : pal[i] = state
    THEN 2 * (CHOOSE i \in 1..Len(pal) : pal[i] = state)
    ELSE 0

\* find_closest_state: min_by_key over the keys of a HashMap, whose iteration
\* order is arbitrary; tie tells which of the equally close states comes first
find_closest_state(pal, new_state, tie) ==
    LET closest(len) == {i \in 1..Len(pal) : \A j \in 1..Len(pal) : len[i] <= len[j]}
        pick(among) == IF tie = "first"
                       THEN CHOOSE i \in among : \A j \in among : i <= j
                       ELSE CHOOSE i \in among : \A j \in among : i >= j
    IN IF pal = <<>> THEN NoBlock
       ELSE pal[pick(closest([i \in 1..Len(pal) |-> Len(difference(pal[i], new_state))]))]

\* palette_id_from_state: [w, id]
palette_id_from_state(w, state, tie) ==
    LET new_id == (Len(w.running_palette) + 1) * 2
        diff(closest) ==
            write_string(write_var_int(write_var_int(w, 1),
                                       RunningPaletteGet(w.running_palette, closest)),
                         difference(closest, state))
        insert(w1) ==
            [w |-> IF w1.panic THEN w1 ELSE [w1 EXCEPT !.running_palette = Append(@, state)],
             id |-> new_id]
        or_else(id, inserted) == IF id # 0 THEN [w |-> w, id |-> id] ELSE inserted
    IN or_else(RunningPaletteGet(w.running_palette, state),
               insert(IF w.running_palette = <<>>
                      THEN write_string(write_var_int(write_var_int(w, 0), 0), to_string(state))
                      ELSE diff(find_closest_state(w.running_palette, state, tie))))

write_palette_id_with_rle(w, state, run_length, tie) ==
    LET write_id(r) == IF run_length > 1
                       THEN write_var_int(write_var_int(r.w, r.id + 1), run_length)
                       ELSE write_var_int(r.w, r.id)
    IN IF w.panic THEN w ELSE write_id(palette_id_from_state(w, state, tie))

\* the inner loop of write_blocks, which extends a run: [n, panic];
\* start_cursor + run_length panics on overflow when the build checks it
RECURSIVE RunLength(_, _, _, _, _, _)
RunLength(w, blocks, idx, start_cursor, run_length, checks) ==
    IF ~(idx + run_length < Len(blocks)) THEN [n |-> run_length, panic |-> FALSE]
    ELSE LET next_block == blocks[idx + run_length + 1]
         IN IF next_block.state # blocks[idx + 1].state
            THEN [n |-> run_length, panic |-> FALSE]
            ELSE IF checks /\ UAddOverflows(start_cursor, run_length)
            THEN [n |-> run_length, panic |-> TRUE]
            ELSE IF index(w.axis_order, next_block.position, w.boundary)
                    # start_cursor + run_length
            THEN [n |-> run_length, panic |-> FALSE]
            ELSE RunLength(w, blocks, idx, start_cursor, run_length + 1, checks)

\* the outer loop of write_blocks from blocks[idx] on (idx counts from 0): [w, res]
RECURSIVE WriteBlocksFrom(_, _, _, _, _)
WriteBlocksFrom(w, blocks, idx, tie, checks) ==
    LET block == blocks[idx + 1]
        \* the run is written and the cursor moves past it
        advance(run, w2) ==
            IF w2.panic THEN [w |-> w2, res |-> Panic]
            ELSE IF checks /\ UAddOverflows(w2.written_blocks, run.n)
            THEN [w |-> [w2 EXCEPT !.panic = TRUE], res |-> Panic]
            ELSE WriteBlocksFrom([w2 EXCEPT !.written_blocks = @ + run.n],
                                 blocks, idx + run.n, tie, checks)
        write_run(w1, run) ==
            IF run.panic THEN [w |-> [w1 EXCEPT !.panic = TRUE], res |-> Panic]
            ELSE advance(run, write_palette_id_with_rle(w1, block.state, run.n, tie))
        \* w1 is the writer after the gap before the block was filled with air
        after_gap(w1) ==
            IF w1.panic THEN [w |-> w1, res |-> Panic]
            ELSE write_run(w1, RunLength(w1, blocks, idx, w1.written_blocks, 0, checks))
        fill(flat_index, f) ==
            IF f.panic THEN f ELSE [f EXCEPT !.written_blocks = flat_index]
        at(flat_index) ==
            IF ULess(flat_index, w.written_blocks)
            THEN [w |-> w, res |-> Err("VXL: Blocks out of order")]
            ELSE IF ULess(w.written_blocks, flat_index)
            THEN after_gap(fill(flat_index,
                                write_palette_id_with_rle(w, air, flat_index - w.written_blocks,
                                                          tie)))
            ELSE after_gap(w)
    IN IF ~(idx < Len(blocks)) THEN [w |-> w, res |-> Ok(w.written_blocks)]
       ELSE at(index(w.axis_order, block.position, w.boundary))

\* write_blocks: [w, res]
write_blocks(w, blocks, tie, checks) ==
    IF ~w.header_written THEN [w |-> w, res |-> Err("VXL: Header must be written before blocks")]
    ELSE IF w.closed THEN [w |-> w, res |-> Err("VXL: Stream is closed")]
    ELSE WriteBlocksFrom(w, blocks, 0, tie, checks)

\* VXLSchematicOutputStream::write: [w, res]
VxlWrite(w, blocks, tie, checks) ==
    LET then_blocks(h) == IF ~h.res.ok THEN h ELSE write_blocks(h.w, blocks, tie, checks)
    IN then_blocks(IF ~w.header_written THEN write_header(w)
                   ELSE [w |-> w, res |-> Ok(Unit)])

\* VXLSchematicOutputStream::complete: [w, res]
VxlComplete(w) == [w |-> [w EXCEPT !.closed = TRUE], res |-> Ok(Unit)]

-----------------------------------------------------------------------------
(* VXLSchematicInputStream (stream/vxl_reader.rs).  A reader is a record
   [input, pos, palette, header_read, axis_order, boundary, read_blocks,
    current_run_state, remaining_run_length]: input is the byte source and pos
   the number of bytes consumed; palette holds the states in insertion order
   (the i-th has id 2 * i). *)

NoBoundary == [absent |-> TRUE]
NoAxisOrder == "none"
EndOfStream == [eos |-> TRUE]          \* Ok(None) of read
Count(n) == [eos |-> FALSE, n |-> n]   \* Ok(Some(n)) of read

\* VXLSchematicInputStream::new
\* the byte source: it hands out input and then reports the end of the data,
\* or, when broken, an I/O error in its place.  io_error and cut record what
\* the last call of read met: an I/O error of the source, and the end of the
\* source after the first byte of a command and before its last
VxlReaderNew(bytes) ==
    [input |-> bytes, pos |-> 0, palette |-> <<>>, header_read |-> FALSE,
     axis_order |-> NoAxisOrder, boundary |-> NoBoundary, read_blocks |-> 0,
     current_run_state |-> NoBlock, remaining_run_length |-> 0,
     broken |-> FALSE, io_error |-> FALSE, cut |-> FALSE]

\* VXLSchematicInputStream::new over a source that fails where its data ends
VxlReaderOver(bytes, broken) == [VxlReaderNew(bytes) EXCEPT !.broken = broken]

\* reader.read_exact past the data: map_err(|e| e.to_string())
SourceEnd(rd) ==
    [rd |-> [rd EXCEPT !.pos = Len(rd.input), !.io_error = rd.broken],
     res |-> Err(IF rd.broken THEN "connection reset" ELSE "failed to fill whole buffer")]

\* the loop of read_var_int: num |= ((byte & 0x7F) as i32) << shift; the
\* fifth byte reaches bit 31, the sign bit, and loses its upper three bits
RECURSIVE ReadVarIntFrom(_, _, _)
ReadVarIntFrom(rd, num, shift) ==
    IF rd.pos >= Len(rd.input)
    THEN SourceEnd(rd)
    ELSE LET byte == rd.input[rd.pos + 1]
             low == byte % 128
             num1 == IF shift < 28 THEN num + low * Pow2(shift)
                     ELSE (num + (low % 8) * Pow2(28))
                          - ((low \div 8) % 2) * Pow2(30) - ((low \div 8) % 2) * Pow2(30)
             rd1 == [rd EXCEPT !.pos = @ + 1]
         IN IF byte < 128 THEN [rd |-> rd1, res |-> Ok(num1)]
            ELSE IF shift + 7 >= 32 THEN [rd |-> rd1, res |-> Err("VXL: VarInt too big")]
            ELSE ReadVarIntFrom(rd1, num1, shift + 7)

read_var_int(rd) == ReadVarIntFrom(rd, 0, 0)

\* the loop of read_var_long; the value is returned as base-128 digits, the
\* tenth digit reduced to the one bit that fits below bit 64
RECURSIVE ReadVarLongFrom(_, _)
ReadVarLongFrom(rd, digits) ==
    IF rd.pos >= Len(rd.input)
    THEN SourceEnd(rd)
    ELSE LET byte == rd.input[rd.pos + 1]
             digits1 == Append(digits, IF Len(digits) = 9 THEN byte % 2 ELSE byte % 128)
             rd1 == [rd EXCEPT !.pos = @ + 1]
         IN IF byte < 128 THEN [rd |-> rd1, res |-> Ok(digits1)]
            ELSE IF Len(digits1) * 7 >= 64 THEN [rd |-> rd1, res |-> Err("VXL: VarLong too big")]
            ELSE ReadVarLongFrom(rd1, digits1)

RECURSIVE StripZeroDigits(_)
StripZeroDigits(digits) ==
    IF digits # <<>> /\ digits[Len(digits)] = 0
    THEN StripZeroDigits(SubSeq(digits, 1, Len(digits) - 1))
    ELSE digits

read_var_long(rd) ==
    LET value(r) == IF r.res.ok THEN [rd |-> r.rd, res |-> Ok(StripZeroDigits(r.res.val))]
                    ELSE r
    IN value(ReadVarLongFrom(rd, <<>>))

\* read_string: [rd, res]
read_string(rd) ==
    LET read_exact(l) ==
            IF ~l.res.ok THEN l
            ELSE IF l.res.val < 0 THEN [rd |-> l.rd, res |-> Err("Negative string length")]
            ELSE IF l.rd.pos + l.res.val > Len(l.rd.input)
            THEN SourceEnd(l.rd)
            ELSE [rd |-> [l.rd EXCEPT !.pos = @ + l.res.val],
                  res |-> from_utf8(SubSeq(l.rd.input, l.rd.pos + 1, l.rd.pos + l.res.val))]
    IN read_exact(read_var_int(rd))

\* read_boundary: [rd, res]
\* the values read so far are vals; each read_var_int()? returns its error
RECURSIVE ReadBoundaryFrom(_, _)
ReadBoundaryFrom(rd, vals) ==
    LET next(v) == IF ~v.res.ok THEN v ELSE ReadBoundaryFrom(v.rd, Append(vals, v.res.val))
    IN IF Len(vals) = 6
       THEN [rd |-> rd,
             res |-> Ok(new_from_min_max(vals[1], vals[2], vals[3], vals[4], vals[5], vals[6]))]
       ELSE next(read_var_int(rd))

read_boundary(rd) == ReadBoundaryFrom(rd, <<>>)

\* read_axis_order: [rd, res]
read_axis_order(rd) ==
    IF rd.pos >= Len(rd.input) THEN SourceEnd(rd)
    ELSE LET byte == rd.input[rd.pos + 1]
         IN [rd |-> [rd EXCEPT !.pos = @ + 1],
             res |-> IF \E o \in AxisOrders : AxisOrderByte(o) = byte
                     THEN Ok(CHOOSE o \in AxisOrders : AxisOrderByte(o) = byte)
                     ELSE Err("VXL: Invalid AxisOrder")]

\* read_header: [rd, res]
read_header(rd) ==
    LET with_order(bnd, ord) ==
            IF ~ord.res.ok THEN ord
            ELSE [rd |-> [ord.rd EXCEPT !.boundary = bnd.res.val,
                                        !.axis_order = ord.res.val,
                                        !.header_read = TRUE],
                  res |-> Ok(Unit)]
        with_boundary(bnd) ==
            IF ~bnd.res.ok THEN bnd ELSE with_order(bnd, read_axis_order(bnd.rd))
        with_version(version) ==
            IF ~version.res.ok THEN version
            ELSE IF version.res.val # VERSION
            THEN [rd |-> version.rd, res |-> Err("VXL: Unsupported version")]
            ELSE with_boundary(read_boundary(version.rd))
        with_magic(magic) ==
            IF ~magic.res.ok THEN magic
            ELSE IF magic.res.val # MAGIC_NUMBER
            THEN [rd |-> magic.rd, res |-> Err("VXL: Invalid magic number")]
            ELSE with_version(read_var_int(magic.rd))
    IN IF rd.header_read THEN [rd |-> rd, res |-> Err("VXL: Header already read")]
       ELSE with_magic(read_var_long(rd))

\* palette.get(&id)
ReaderPaletteHas(pal, id) == id % 2 = 0 /\ id \div 2 \in 1..Len(pal)

\* parse_next_instruction: [rd, res] with res = Ok(TRUE), Ok(FALSE) or an error
RECURSIVE parse_next_instruction(_)
parse_next_instruction(rd) ==
    LET \* palette.insert(id, Rc::new(state)) and the next turn of the loop
        insert(rd1, state, message) ==
            IF ~state.ok THEN [rd |-> rd1, res |-> Err(message)]
            ELSE parse_next_instruction([rd1 EXCEPT !.palette = Append(@, state.val)])
        \* command 0
        new_state(state_str) ==
            IF ~state_str.res.ok THEN state_str
            ELSE insert(state_str.rd, from_string(state_str.res.val), "VXL: Parse error")
        new_entry(unused) ==
            IF ~unused.res.ok THEN unused ELSE new_state(read_string(unused.rd))
        \* command 1
        diff_state(ref_id, diff_read) ==
            IF ~diff_read.res.ok THEN diff_read
            ELSE IF ~ReaderPaletteHas(diff_read.rd.palette, ref_id)
            THEN [rd |-> diff_read.rd, res |-> Err("VXL: Missing Ref ID")]
            ELSE insert(diff_read.rd,
                        update(diff_read.rd.palette[ref_id \div 2], diff_read.res.val),
                        "VXL: Diff error")
        diff_entry(ref_id) ==
            IF ~ref_id.res.ok THEN ref_id
            ELSE diff_state(ref_id.res.val, read_string(ref_id.rd))
        \* any other command starts a run
        run(id, length) ==
            IF ~length.res.ok THEN length
            ELSE IF ~ReaderPaletteHas(length.rd.palette, id)
            THEN [rd |-> length.rd, res |-> Err("VXL: Unknown Palette ID")]
            ELSE [rd |-> [length.rd EXCEPT !.current_run_state = length.rd.palette[id \div 2],
                                           !.remaining_run_length = length.res.val],
                  res |-> Ok(TRUE)]
        dispatch(command) ==
            IF ~command.res.ok
            THEN [rd |-> [command.rd EXCEPT !.cut = @ \/ command.rd.pos > rd.pos],
                  res |-> Ok(FALSE)]
            ELSE IF command.res.val = 0 THEN new_entry(read_var_int(command.rd))
            ELSE IF command.res.val = 1 THEN diff_entry(read_var_int(command.rd))
            ELSE IF command.res.val % 2 # 0
            THEN run(command.res.val - 1, read_var_int(command.rd))
            ELSE run(command.res.val, [rd |-> command.rd, res |-> Ok(1)])
        \* a parameter of the command that the source no longer holds
        marked(r) ==
            IF ~r.res.ok /\ r.res.val \in {"failed to fill whole buffer", "connection reset"}
            THEN [r EXCEPT !.rd.cut = TRUE]
            ELSE r
    IN marked(dispatch(read_var_int(rd)))

\* Block { position, state }
Block(p, st) == [position |-> p, state |-> st]

\* the for loop of read over one run: n iterations are left (a negative
\* count stands for the huge usize a negative i32 casts to): [rd, sk, buffer,
\* blocks_written, err]
RECURSIVE ReadRun(_, _, _, _, _)
ReadRun(rd, sk, buffer, blocks_written, n) ==
    LET push(r, keep) ==
            IF r.item = NoPos
            THEN [rd |-> rd, buffer |-> buffer, blocks_written |-> blocks_written, err |-> TRUE]
            ELSE ReadRun([rd EXCEPT !.read_blocks = @ + 1], r.sk,
                         IF keep THEN Append(buffer, Block(r.item, rd.current_run_state))
                         ELSE buffer,
                         IF keep THEN blocks_written + 1 ELSE blocks_written,
                         n - 1)
    IN IF n = 0
       THEN [rd |-> rd, buffer |-> buffer, blocks_written |-> blocks_written, err |-> FALSE]
       ELSE push(SkipNext(rd.boundary, rd.axis_order, sk), ~is_air(rd.current_run_state))

\* the while loop of read: [rd, buffer, res]
RECURSIVE ReadLoop(_, _, _, _)
ReadLoop(rd, buffer, blocks_written, length) ==
    LET finished(r) ==
            [rd |-> r, buffer |-> buffer,
             res |-> IF blocks_written = 0 /\ length > 0 THEN Ok(EndOfStream)
                     ELSE Ok(Count(blocks_written))]
        processed(attempt_to_process, run) ==
            IF run.err
            THEN [rd |-> run.rd, buffer |-> run.buffer,
                  res |-> Err("VXL: Ran out of positions in boundary")]
            ELSE ReadLoop([run.rd EXCEPT !.remaining_run_length = @ - attempt_to_process],
                          run.buffer, run.blocks_written, length)
        process(rd1, attempt_to_process) ==
            processed(attempt_to_process,
                      IF rd1.current_run_state # NoBlock
                      THEN ReadRun(rd1, [it |-> BoundaryIter(rd1.boundary), n |-> rd1.read_blocks],
                                   buffer, blocks_written, attempt_to_process)
                      ELSE [rd |-> rd1, buffer |-> buffer,
                            blocks_written |-> blocks_written, err |-> FALSE])
        with_run(parsed) ==
            IF ~parsed.res.ok THEN [rd |-> parsed.rd, buffer |-> buffer, res |-> parsed.res]
            ELSE IF ~parsed.res.val THEN finished(parsed.rd)
            ELSE process(parsed.rd,
                         Min(length - blocks_written, parsed.rd.remaining_run_length))
    IN IF ~(blocks_written < length) THEN finished(rd)
       ELSE with_run(IF rd.remaining_run_length <= 0 THEN parse_next_instruction(rd)
                     ELSE [rd |-> rd, res |-> Ok(TRUE)])

\* VXLSchematicInputStream::read: [rd, buffer, res]
VxlRead(rd, buffer, length) ==
    LET then_blocks(h) == IF ~h.res.ok THEN [rd |-> h.rd, buffer |-> buffer, res |-> h.res]
                          ELSE ReadLoop(h.rd, buffer, 0, length)
        from(rd0) ==
            then_blocks(IF ~rd0.header_read THEN read_header(rd0)
                        ELSE [rd |-> rd0, res |-> Ok(Unit)])
    IN from([rd EXCEPT !.io_error = FALSE, !.cut = FALSE])

-----------------------------------------------------------------------------
(* SpongeSchematicOutputStream (stream/sponge_writer.rs).  A writer is a
   record [out, block_store, boundary]; block_store is a PagedBlockStore
   [boundary, pages, palette, bits, fixed_size].  What fastnbt::to_bytes
   produces is kept as the NBT value itself, one element of out. *)

\* PagedBlockStore::new_for_fixed_boundary
new_for_fixed_boundary(b) ==
    LET st == new_for_boundary(b, TRUE)
    IN [boundary |-> st.boundary, bits |-> st.bits, fixed_size |-> st.fixed_size,
        pages |-> <<>>, palette |-> <<>>]

\* SpongeSchematicOutputStream::new
SpongeWriterNew(b) == [out |-> <<>>, block_store |-> new_for_fixed_boundary(b), boundary |-> b]

\* BlockStore::insert: set_block_at for each block, stopping at the first error
RECURSIVE StoreInsert(_, _, _)
StoreInsert(store, blocks, i) ==
    IF i > Len(blocks) THEN [store |-> store, res |-> Ok(Unit)]
    ELSE LET r == PagedSetBlockAt(store.boundary, store.pages, store.palette, store.bits,
                                  store.fixed_size, blocks[i].position, blocks[i].state)
             store1 == [store EXCEPT !.boundary = r.boundary, !.pages = r.pages,
                                     !.palette = r.palette]
         IN IF ~r.res.ok THEN [store |-> store1, res |-> r.res]
            ELSE StoreInsert(store1, blocks, i + 1)

\* SpongeSchematicOutputStream::write: [w, res]
SpongeWrite(w, blocks) ==
    LET r == StoreInsert(w.block_store, blocks, 1)
    IN [w |-> [w EXCEPT !.block_store = r.store],
        res |-> IF r.res.ok THEN Ok(Len(blocks)) ELSE r.res]

\* encode_var_int for a value that is not negative, each byte then cast to i8
encode_var_int(value) ==
    LET bytes == VarIntBytes(value)
    IN [i \in 1..Len(bytes) |-> IF bytes[i] > 127 THEN bytes[i] - 256 ELSE bytes[i]]

\* the loop of complete over boundary.iter(YZX): [palette, data, res];
\* palette lists the states in the order they got an index, air (index 0) first
RECURSIVE SpongeEncode(_, _, _, _, _)
SpongeEncode(w, positions, i, pal, data) ==
    IF i > Len(positions) THEN [palette |-> pal, data |-> data, res |-> Ok(Unit)]
    ELSE LET pos == positions[i]
             st == w.block_store
             got == PagedBlockAt(st.boundary, st.pages, st.palette, st.bits, pos)
             known == \E k \in 1..Len(pal) : pal[k] = got.val
             pal1 == IF got.val = NoBlock \/ known THEN pal ELSE Append(pal, got.val)
             state_index == IF got.val = NoBlock THEN 0
                            ELSE (CHOOSE k \in 1..Len(pal1) : pal1[k] = got.val) - 1
         IN IF ~contains(st.boundary, pos)
            THEN [palette |-> pal, data |-> data, res |-> Err("Sponge: BlockStore is missing position")]
            ELSE IF ~got.ok THEN [palette |-> pal, data |-> data, res |-> got]
            ELSE SpongeEncode(w, positions, i + 1, pal1, data \o encode_var_int(state_index))

\* palette_nbt: to_string of a state -> its index; two states with one string
\* share an entry, and the iteration order of the HashMap decides which wins
PaletteNbt(pal, tie) ==
    LET keys == {to_string(pal[k]) : k \in 1..Len(pal)}
        of(key) == {k \in 1..Len(pal) : to_string(pal[k]) = key}
    IN [key \in keys |->
          (IF tie = "first" THEN CHOOSE k \in of(key) : \A j \in of(key) : k <= j
           ELSE CHOOSE k \in of(key) : \A j \in of(key) : k >= j) - 1]

\* SpongeSchematicOutputStream::complete: [w, res]
SpongeComplete(w, tie) ==
    LET enc == SpongeEncode(w, IterAll(w.boundary, "YZX"), 1, <<air>>, <<>>)
        nbt == [Version |-> 3, DataVersion |-> 3129,
                Width |-> w.boundary.d_x, Height |-> w.boundary.d_y,
                Length |-> w.boundary.d_z, Offset |-> <<0, 0, 0>>,
                Blocks |-> [Palette |-> PaletteNbt(enc.palette, tie), Data |-> enc.data,
                            BlockEntities |-> <<>>],
                Metadata |-> [Date |-> 0]]
    IN IF ~enc.res.ok THEN [w |-> w, res |-> enc.res]
       ELSE [w |-> [w EXCEPT !.out = Append(@, [Schematic |-> nbt])], res |-> Ok(Unit)]

-----------------------------------------------------------------------------
(* MojangSchematicOutputStream (stream/mojang_writer.rs).  A writer is a
   record [out, block, palette, boundary]: block the BlockEntry list, palette
   the states in index order (palette_map is its inverse). *)

\* MojangSchematicOutputStream::new
MojangWriterNew == [out |-> <<>>, block |-> <<>>, palette |-> <<>>,
                    boundary |-> NewBoundary(0, 0, 0, 0, 0, 0)]

\* palette_map.get(state), or the index a new entry gets: [palette, idx]
MojangPaletteIndex(pal, state) ==
    IF \E k \in 1..Len(pal) : pal[k] = state
    THEN [palette |-> pal, idx |-> (CHOOSE k \in 1..Len(pal) : pal[k] = state) - 1]
    ELSE [palette |-> Append(pal, state), idx |-> Len(pal)]

\* the loop of write
RECURSIVE MojangWriteFrom(_, _, _)
MojangWriteFrom(w, blocks, i) ==
    IF i > Len(blocks) THEN w
    ELSE LET e == MojangPaletteIndex(w.palette, blocks[i].state)
         IN MojangWriteFrom(
                [w EXCEPT !.palette = e.palette,
                          !.boundary = expand_to_include(@, blocks[i].position),
                          !.block = Append(@, [pos |-> blocks[i].position, state |-> e.idx])],
                blocks, i + 1)

\* MojangSchematicOutputStream::write: [w, res]
MojangWrite(w, blocks) == [w |-> MojangWriteFrom(w, blocks, 1), res |-> Ok(Len(blocks))]

\* the loop of complete over boundary.iter(XYZ): every position gets the first
\* entry written for it, or an air entry
RECURSIVE MojangFill(_, _, _, _)
MojangFill(w, positions, i, full) ==
    IF i > Len(positions) THEN [w EXCEPT !.block = full]
    ELSE LET pos == positions[i]
             found == {k \in 1..Len(w.block) : w.block[k].pos = pos}
             e == MojangPaletteIndex(w.palette, air)
         IN IF found # {}
            THEN MojangFill(w, positions, i + 1,
                     Append(full, w.block[CHOOSE k \in found : \A j \in found : k <= j]))
            ELSE MojangFill([w EXCEPT !.palette = e.palette], positions, i + 1,
                     Append(full, [pos |-> pos, state |-> e.idx]))

\* PaletteEntry of a state
PaletteEntry(st) == [Name |-> st.name, Properties |-> st.properties]

\* MojangSchematicOutputStream::complete: [w, res]
MojangComplete(w) ==
    LET w1 == MojangFill(w, IterAll(w.boundary, "XYZ"), 1, <<>>)
        structure == [DataVersion |-> 3465,
                      size |-> <<w1.boundary.d_x, w1.boundary.d_y, w1.boundary.d_z>>,
                      palette |-> [k \in 1..Len(w1.palette) |-> PaletteEntry(w1.palette[k])],
                      blocks |-> w1.block]
    IN [w |-> [w1 EXCEPT !.out = Append(@, structure)], res |-> Ok(Unit)]

-----------------------------------------------------------------------------
(* Specification of the writers, and of the VXL reader over what the VXL
   writer produced: a writer is constructed, write and complete are called
   in any order, then a reader is opened on the bytes and read to the end *)

MaxBlocks == 3                 \* blocks passed to write, all calls together
MaxWriteCalls == 2             \* calls of write

CodecBoundary == NewBoundary(0, 0, 0, 2, 1, 2)
\* two positions of the boundary and one outside it
CodecPositions == {Pos(0, 0, 0), Pos(0, 0, 1), Pos(0, 0, -1)}
\* a name without namespace, a namespaced one, and air
CodecStates == {from_name(sDirt), stStone, air}
CodecBlocks == {Block(p, st) : p \in CodecPositions, st \in CodecStates}
BlockLists(n) == UNION {[1..k -> CodecBlocks] : k \in 1..n}
CodecAxisOrders == {"XYZ", "ZXY"}
ReadLengths == {1, 3}
Ties == {"first", "last"}

BlocksPassed == LET Sum[i \in 0..Len(w_calls)] ==
                        IF i = 0 THEN 0 ELSE Sum[i - 1] + Len(w_calls[i].blocks)
                IN Sum[Len(w_calls)]

InitCodec ==
    /\ StoreIdle
    /\ StateIdle
    /\ StreamsIdle
    /\ \/ /\ w_kind = "vxl"
          /\ overflow_checks \in BOOLEAN
          /\ \E order \in CodecAxisOrders : writer = VxlWriterNew(order, CodecBoundary)
       \/ /\ w_kind = "sponge"
          /\ overflow_checks = FALSE
          /\ writer = SpongeWriterNew(CodecBoundary)
       \/ /\ w_kind = "mojang"
          /\ overflow_checks = FALSE
          /\ writer = MojangWriterNew
    /\ w_completed = FALSE
    /\ w_calls = <<>>
    /\ w_last = NoCall
    /\ reader = NoReader
    /\ r_blocks = <<>>
    /\ r_last = NoCall

\* the writer unwound in an earlier call
Panicked == w_kind = "vxl" /\ writer.panic

\* SchematicOutputStream::write of the writer under test
WriteOf(blocks, tie) ==
    CASE w_kind = "vxl" -> VxlWrite(writer, blocks, tie, overflow_checks)
      [] w_kind = "sponge" -> SpongeWrite(writer, blocks)
      [] w_kind = "mojang" -> MojangWrite(writer, blocks)

\* SchematicOutputStream::complete of the writer under test
CompleteOf(tie) ==
    CASE w_kind = "vxl" -> VxlComplete(writer)
      [] w_kind = "sponge" -> SpongeComplete(writer, tie)
      [] w_kind = "mojang" -> MojangComplete(writer)

Write(tie) ==
    /\ ~Panicked
    /\ reader = NoReader
    /\ Len(w_calls) < MaxWriteCalls
    /\ \E blocks \in BlockLists(MaxBlocks - BlocksPassed) :
       \E r \in {WriteOf(blocks, tie)} :
          /\ writer' = r.w
          /\ w_calls' = Append(w_calls, [blocks |-> blocks, res |-> r.res,
                                         after_complete |-> w_completed])
          /\ w_last' = [op |-> "write", blocks |-> blocks, res |-> r.res,
                        after_complete |-> w_completed,
                        cursor_before |-> IF w_kind = "vxl" THEN writer.written_blocks ELSE 0,
                        emitted |-> Len(r.w.out) - Len(writer.out)]
    /\ UNCHANGED <<w_kind, overflow_checks, w_completed, reader, r_blocks, r_last>>
    /\ UNCHANGED nonCodecVars

Complete(tie) ==
    /\ ~Panicked
    /\ reader = NoReader
    /\ ~w_completed
    /\ \E r \in {CompleteOf(tie)} :
          /\ writer' = r.w
          /\ w_completed' = r.res.ok
          /\ w_last' = [op |-> "complete", res |-> r.res,
                        emitted |-> Len(r.w.out) - Len(writer.out)]
    /\ UNCHANGED <<w_kind, overflow_checks, w_calls, reader, r_blocks, r_last>>
    /\ UNCHANGED nonCodecVars

\* VXLSchematicInputStream::new over the bytes the writer produced
NewReader ==
    /\ w_kind = "vxl"
    /\ ~Panicked
    /\ w_completed
    /\ reader = NoReader
    /\ reader' = VxlReaderNew(writer.out)
    /\ UNCHANGED <<w_kind, overflow_checks, writer, w_completed, w_calls, w_last,
                   r_blocks, r_last>>
    /\ UNCHANGED nonCodecVars

\* SchematicInputStream::read into an empty buffer
Read(length) ==
    /\ reader # NoReader
    /\ r_last.res.ok /\ r_last.res.val # EndOfStream
    /\ \E r \in {VxlRead(reader, <<>>, length)} :
          /\ reader' = r.rd
          /\ r_blocks' = r_blocks \o r.buffer
          /\ r_last' = [op |-> "read", length |-> length, appended |-> r.buffer, res |-> r.res]
    /\ UNCHANGED <<w_kind, overflow_checks, writer, w_completed, w_calls, w_last>>
    /\ UNCHANGED nonCodecVars

NextCodec ==
    \/ \E tie \in Ties : Write(tie)
    \/ \E tie \in Ties : Complete(tie)
    \/ NewReader
    \/ \E length \in ReadLengths : Read(length)

SpecCodec == InitCodec /\ [][NextCodec]_vars

\* a list the VXL writer must accept: not empty, every position inside the
\* boundary, traversal indices strictly increasing (so positions are distinct)
InTraversalOrder(blocks, order, b) ==
    /\ blocks # <<>>
    /\ \A i \in 1..Len(blocks) : contains(b, blocks[i].position)
    /\ \A i \in 1..(Len(blocks) - 1) :
          index(order, blocks[i].position, b) < index(order, blocks[i + 1].position, b)

NonAir(blocks) == SelectSeq(blocks, LAMBDA blk : ~is_air(blk.state))

\* same positions in the same order, each state with the same name and the
\* same set of properties
SameBlocks(got, want) ==
    /\ Len(got) = Len(want)
    /\ \A i \in 1..Len(got) :
          /\ got[i].position = want[i].position
          /\ got[i].state.name = want[i].state.name
          /\ PropSet(got[i].state) = PropSet(want[i].state)

\* one write of a list in traversal order, then complete, then a reader
VxlRoundTrip ==
    /\ w_kind = "vxl"
    /\ reader # NoReader
    /\ Len(w_calls) = 1
    /\ ~w_calls[1].after_complete
    /\ InTraversalOrder(w_calls[1].blocks, writer.axis_order, writer.boundary)

\* C3: VXL round trip: a non-empty list of blocks at distinct positions of the
\* boundary, given in traversal order to one write followed by complete, is
\* read back from the produced bytes without error, and at end-of-stream the
\* blocks read are exactly the non-air blocks of the list: same positions,
\* same order, same names, same sets of properties.
C3_VxlRoundTrip ==
    VxlRoundTrip =>
        /\ w_calls[1].res.ok
        /\ r_last.res.ok
        /\ r_last.res.val = EndOfStream =>
              SameBlocks(r_blocks, NonAir(w_calls[1].blocks))

\* C8: for every writer, a write made after complete has succeeded returns an
\* error and emits nothing to the output.
C8_WriteAfterCompleteFails ==
    (w_last.op = "write" /\ w_last.after_complete) =>
        /\ ~w_last.res.ok
        /\ w_last.emitted = 0

\* C9: a VXL write that contains a block of the boundary whose traversal
\* index is below the cursor the writer had when called returns an error.
C9_VxlOutOfOrderWriteFails ==
    (/\ w_kind = "vxl"
     /\ w_last.op = "write"
     /\ \E i \in 1..Len(w_last.blocks) :
           /\ contains(writer.boundary, w_last.blocks[i].position)
           /\ ULess(index(writer.axis_order, w_last.blocks[i].position, writer.boundary),
                    w_last.cursor_before))
    => (~w_last.res.ok /\ w_last.res # Panic)

\* the VarInt at bytes[pos]: [val, next]
RECURSIVE VarIntAt(_, _)
VarIntAt(bytes, pos) ==
    IF bytes[pos] < 128 THEN [val |-> bytes[pos], next |-> pos + 1]
    ELSE CHOOSE v \in {[val |-> bytes[pos] - 128 + 128 * r.val, next |-> r.next] :
                          r \in {VarIntAt(bytes, pos + 1)}} : TRUE

\* the cells that the commands of a VXL body from bytes[pos] on emit, each as
\* the palette id of its state: command 0 and 1 define a state and emit
\* nothing, an even id is one cell, an odd one is followed by the length of
\* its run
RECURSIVE EmittedCells(_, _, _)
EmittedCells(bytes, pos, cells) ==
    IF pos > Len(bytes) THEN cells
    ELSE CHOOSE all \in
           {IF c.val \in {0, 1}
            THEN CHOOSE rest \in {EmittedCells(bytes, l.next + l.val, cells) :
                                    l \in {VarIntAt(bytes, VarIntAt(bytes, c.next).next)}} : TRUE
            ELSE IF c.val % 2 = 0 THEN EmittedCells(bytes, c.next, Append(cells, c.val))
            ELSE CHOOSE rest \in {EmittedCells(bytes, n.next,
                                                 cells \o [i \in 1..n.val |-> c.val - 1]) :
                                    n \in {VarIntAt(bytes, c.next)}} : TRUE
              : c \in {VarIntAt(bytes, pos)}} : TRUE

\* the cells the VXL writer w has emitted after its header
CellsOf(w) ==
    EmittedCells(w.out, Len(write_header(VxlWriterNew(w.axis_order, w.boundary)).w.out) + 1, <<>>)

\* C23: VXL writer alignment.  After every successful write, the number of
\* cells emitted to the stream (a run of length n counts n, a single cell 1)
\* equals the writer's cursor, which equals one plus the traversal index of
\* the last block written; and every cell that is at no position supplied to
\* a write is emitted as air.
C23_VxlCursorCountsCells ==
    (w_kind = "vxl" /\ w_last.op = "write" /\ w_last.res.ok) =>
        \A cells \in {CellsOf(writer)} :
            /\ Len(cells) = writer.written_blocks
            /\ writer.written_blocks
                 = 1 + index(writer.axis_order, w_last.blocks[Len(w_last.blocks)].position,
                             writer.boundary)
            /\ \A k \in 1..Len(cells) :
                  (\A c \in 1..Len(w_calls) : \A i \in 1..Len(w_calls[c].blocks) :
                      index(writer.axis_order, w_calls[c].blocks[i].position, writer.boundary)
                        # k - 1)
                  => is_air(writer.running_palette[cells[k] \div 2])

\* the commands of a VXL body from bytes[pos] on, each [cmd, arg, str]: a
\* definition (cmd 0 or 1) with its reference id and its string, an emit
\* with its run length (1 for a single cell)
RECURSIVE ParseCommands(_, _, _)
ParseCommands(bytes, pos, cmds) ==
    IF pos > Len(bytes) THEN cmds
    ELSE CHOOSE all \in
           {IF c.val \in {0, 1}
            THEN CHOOSE rest \in
                   {ParseCommands(bytes, l.next + l.val,
                                  Append(cmds, [cmd |-> c.val, arg |-> VarIntAt(bytes, c.next).val,
                                                str |-> SubSeq(bytes, l.next, l.next + l.val - 1)])) :
                       l \in {VarIntAt(bytes, VarIntAt(bytes, c.next).next)}} : TRUE
            ELSE IF c.val % 2 = 0
            THEN ParseCommands(bytes, c.next, Append(cmds, [cmd |-> c.val, arg |-> 1, str |-> <<>>]))
            ELSE CHOOSE rest \in
                   {ParseCommands(bytes, n.next,
                                  Append(cmds, [cmd |-> c.val, arg |-> n.val, str |-> <<>>])) :
                       n \in {VarIntAt(bytes, c.next)}} : TRUE
              : c \in {VarIntAt(bytes, pos)}} : TRUE

HeaderLen(w) == Len(write_header(VxlWriterNew(w.axis_order, w.boundary)).w.out)

\* C24: VXL writer encoding policy.  The first state the writer meets is
\* defined with command 0 and every later new state with command 1 whose
\* ref_id is a palette entry with a shortest difference string to the new
\* state; the n-th defined state gets id 2 * n; and a run of n > 1 consecutive
\* cells of one state within a write is emitted as (id + 1, n), a single
\* cell as id: no two emits that follow each other in a write are of the
\* same state.
C24_VxlEncodingPolicy ==
    (w_kind = "vxl" /\ w_last.op = "write" /\ w_last.res.ok) =>
        \A pal \in {writer.running_palette} :
        \A cmds \in {ParseCommands(writer.out, HeaderLen(writer) + 1, <<>>)} :
        \A mine \in {ParseCommands(writer.out,
                                    Max(Len(writer.out) - w_last.emitted, HeaderLen(writer)) + 1,
                                    <<>>)} :
        \A defs \in {SelectSeq(cmds, LAMBDA c : c.cmd \in {0, 1})} :
        \A emits \in {SelectSeq(mine, LAMBDA c : c.cmd \notin {0, 1})} :
            /\ Len(defs) = Len(pal)
            /\ \A n \in 1..Len(defs) :
                  IF n = 1
                  THEN defs[n].cmd = 0 /\ defs[n].str = as_bytes(to_string(pal[n]))
                  ELSE /\ defs[n].cmd = 1
                       /\ defs[n].arg \in {2 * j : j \in 1..(n - 1)}
                       /\ defs[n].str = as_bytes(difference(pal[defs[n].arg \div 2], pal[n]))
                       /\ \A j \in 1..(n - 1) :
                             Len(defs[n].str) <= Len(difference(pal[j], pal[n]))
            /\ \A i \in 1..Len(w_last.blocks) :
                  \E n \in 1..Len(pal) :
                      /\ pal[n] = w_last.blocks[i].state
                      /\ \E k \in 1..Len(emits) : emits[k].cmd \in {2 * n, 2 * n + 1}
            /\ \A k \in 1..Len(emits) :
                  /\ emits[k].cmd \div 2 \in 1..Len(pal)
                  /\ emits[k].cmd % 2 = 1 => emits[k].arg > 1
            /\ \A k \in 1..(Len(emits) - 1) :
                  emits[k].cmd \div 2 # emits[k + 1].cmd \div 2

\* C29: the VXL writer rejects every block whose position lies outside the
\* boundary given at construction: a write that succeeds was passed positions
\* of the boundary only, and after writes that all succeeded the cursor is at
\* most the volume of the boundary.
C29_VxlRejectsOutside ==
    w_kind = "vxl" =>
        /\ \A c \in 1..Len(w_calls) :
              w_calls[c].res.ok =>
                  \A i \in 1..Len(w_calls[c].blocks) :
                      contains(writer.boundary, w_calls[c].blocks[i].position)
        /\ (\A c \in 1..Len(w_calls) : w_calls[c].res.ok) =>
              /\ 0 <= writer.written_blocks
              /\ writer.written_blocks
                    <= writer.boundary.d_x * writer.boundary.d_y * writer.boundary.d_z

\* C30: after complete has succeeded on a VXL writer the output starts with
\* a full header (magic, version, boundary, axis order), also when write was
\* never called: read_header, and with it boundary, of a reader over the
\* bytes succeeds and yields the writer's boundary and axis order.
C30_CompletedOutputHasHeader ==
    (w_kind = "vxl" /\ w_completed) =>
        \A h \in {read_header(VxlReaderNew(writer.out))} :
            /\ h.res.ok
            /\ h.rd.boundary = writer.boundary
            /\ h.rd.axis_order = writer.axis_order

-----------------------------------------------------------------------------
(* SharedStream and VirtualReader (stream/shared_stream.rs).  The source is
   [data, off]: it hands out data in order, off bytes so far.  readers holds
   one record [id, alive, pos] per Weak pointer; alive tells that the
   VirtualReader it points to has not been dropped. *)

TempLen == 1024

MaxReaders == 2                \* forks made on one stream
SharedSources == {<<>>, <<11>>, <<11, 12, 13>>}
BufLens == {0, 1, 2}

\* what inner.read(&mut temp) may return: at the end 0, before it any positive
\* count that fits temp and does not exceed what is left
InnerReads(src) ==
    IF src.off = Len(src.data) THEN {0}
    ELSE 1..Min(TempLen, Len(src.data) - src.off)

\* *self.pos of the reader
ReaderPos(rs, id) == rs[CHOOSE i \in 1..Len(rs) : rs[i].id = id].pos

\* auto_prune, except that the positions are left as they were
auto_prune_keeping_positions(rs, c) ==
    LET live == SelectSeq(rs, LAMBDA r : r.alive)
        drain(n) == [readers |-> live, cache |-> SubSeq(c, n + 1, Len(c))]
    IN IF live = <<>> THEN [readers |-> live, cache |-> c]
       ELSE drain(CHOOSE n \in {live[i].pos : i \in 1..Len(live)} :
                      \A i \in 1..Len(live) : n <= live[i].pos)

\* auto_prune, except that a dropped reader still counts for the minimum
auto_prune_counting_dropped(rs, c) ==
    LET drain(n) ==
            IF n > 0
            THEN [readers |-> [i \in 1..Len(rs) |-> [rs[i] EXCEPT !.pos = @ - n]],
                  cache |-> SubSeq(c, n + 1, Len(c))]
            ELSE [readers |-> rs, cache |-> c]
    IN IF rs = <<>> THEN [readers |-> rs, cache |-> c]
       ELSE drain(CHOOSE n \in {rs[i].pos : i \in 1..Len(rs)} :
                      \A i \in 1..Len(rs) : n <= rs[i].pos)

\* SharedStream::auto_prune: [readers, cache]
auto_prune(rs, c) ==
    LET live == SelectSeq(rs, LAMBDA r : r.alive)
        drain(n) ==
            IF n > 0
            THEN [readers |-> [i \in 1..Len(live) |-> [live[i] EXCEPT !.pos = @ - n]],
                  cache |-> SubSeq(c, n + 1, Len(c))]
            ELSE [readers |-> live, cache |-> c]
    IN IF live = <<>> THEN [readers |-> live, cache |-> c]
       ELSE drain(CHOOSE n \in {live[i].pos : i \in 1..Len(live)} :
                      \A i \in 1..Len(live) : n <= live[i].pos)

\* VirtualReader::read of reader id into a buffer of buf_len bytes, the source
\* returning pulled bytes if it is asked: [inner, cache, eof_reached, readers,
\* n, copied]
VirtualReaderRead(src, c, eof, rs, id, buf_len, pulled) ==
    LET current_pos == ReaderPos(rs, id)
        fill == current_pos >= Len(c) /\ ~eof
        copy(src1, c1, eof1, n, pruned) ==
            IF Len(c1) - current_pos = 0
            THEN [inner |-> src1, cache |-> c1, eof_reached |-> eof1, readers |-> rs,
                  n |-> 0, copied |-> <<>>]
            ELSE [inner |-> src1, cache |-> pruned.cache, eof_reached |-> eof1,
                  readers |-> pruned.readers,
                  n |-> n, copied |-> SubSeq(c1, current_pos + 1, current_pos + n)]
        advance(src1, c1, eof1, n) ==
            copy(src1, c1, eof1, n,
                 auto_prune([i \in 1..Len(rs) |->
                                IF rs[i].id = id THEN [rs[i] EXCEPT !.pos = @ + n] ELSE rs[i]],
                            c1))
        available(src1, c1, eof1) ==
            advance(src1, c1, eof1, Min(Len(c1) - current_pos, buf_len))
    IN IF fill
       THEN available([src EXCEPT !.off = @ + pulled],
                      c \o SubSeq(src.data, src.off + 1, src.off + pulled),
                      pulled = 0)
       ELSE available(src, c, eof)

\* SharedStream::new over a source
InitShared ==
    /\ StoreIdle
    /\ StateIdle
    /\ CodecIdle
    /\ MuxIdle
    /\ InputIdle
    /\ GeomIdle
    /\ VarIntIdle
    /\ \E data \in SharedSources : inner = [data |-> data, off |-> 0]
    /\ cache = <<>>
    /\ eof_reached = FALSE
    /\ readers = <<>>
    /\ vr_forked = 0
    /\ vr_early = {}
    /\ vr_seen = [id \in 1..MaxReaders |-> <<>>]
    /\ vr_last = NoCall

\* SharedStream::fork
Fork ==
    /\ vr_forked < MaxReaders
    /\ vr_forked' = vr_forked + 1
    /\ readers' = Append(readers, [id |-> vr_forked + 1, alive |-> TRUE, pos |-> 0])
    /\ vr_early' = IF inner.off = 0 THEN vr_early \cup {vr_forked + 1} ELSE vr_early
    /\ UNCHANGED <<inner, cache, eof_reached, vr_seen, vr_last>>
    /\ UNCHANGED nonSharedVars

\* VirtualReader::read
ReadShared(id, buf_len) ==
    /\ \E i \in 1..Len(readers) : readers[i].id = id /\ readers[i].alive
    /\ \E pulled \in InnerReads(inner) :
       \E r \in {VirtualReaderRead(inner, cache, eof_reached, readers, id, buf_len, pulled)} :
          /\ inner' = r.inner
          /\ cache' = r.cache
          /\ eof_reached' = r.eof_reached
          /\ readers' = r.readers
          /\ vr_seen' = [vr_seen EXCEPT ![id] = @ \o r.copied]
          /\ vr_last' = [op |-> "read", id |-> id, buf_len |-> buf_len, n |-> r.n,
                         res |-> Ok(r.n)]
    /\ UNCHANGED <<vr_forked, vr_early>>
    /\ UNCHANGED nonSharedVars

\* the VirtualReader is dropped: its Weak pointer no longer upgrades
DropReader(id) ==
    /\ \E i \in 1..Len(readers) :
          /\ readers[i].id = id /\ readers[i].alive
          /\ readers' = [readers EXCEPT ![i].alive = FALSE]
    /\ UNCHANGED <<inner, cache, eof_reached, vr_forked, vr_early, vr_seen, vr_last>>
    /\ UNCHANGED nonSharedVars

NextShared ==
    \/ Fork
    \/ \E id \in 1..MaxReaders, buf_len \in BufLens : ReadShared(id, buf_len)
    \/ \E id \in 1..MaxReaders : DropReader(id)

SpecShared == InitShared /\ [][NextShared]_vars

IsPrefix(s, t) == Len(s) <= Len(t) /\ SubSeq(t, 1, Len(s)) = s

\* C7: a virtual reader forked before any byte was read has copied out a
\* prefix of the source's bytes, and while it lives the bytes it has copied,
\* the cache from its position on and the bytes the source still holds make
\* up the source's byte sequence, whatever reads and drops happened; its read
\* into a non-empty buffer returns 0 only once the source reported EOF and the
\* reader has copied out every byte.
C7_VirtualReaderSeesSource ==
    /\ \A id \in vr_early : IsPrefix(vr_seen[id], inner.data)
    /\ \A i \in 1..Len(readers) :
          (readers[i].alive /\ readers[i].id \in vr_early) =>
              vr_seen[readers[i].id] \o SubSeq(cache, readers[i].pos + 1, Len(cache))
                  \o SubSeq(inner.data, inner.off + 1, Len(inner.data)) = inner.data
    /\ (vr_last.op = "read" /\ vr_last.id \in vr_early /\ vr_last.buf_len > 0
        /\ vr_last.n = 0) =>
           (eof_reached /\ vr_seen[vr_last.id] = inner.data)

\* a reader has read the whole source in more than one read and was told 0 at
\* the end, while an earlier fork read a part of it and was dropped
C7_Witness ==
    /\ vr_last.op = "read" /\ vr_last.buf_len > 0 /\ vr_last.n = 0
    /\ vr_last.id \in vr_early
    /\ Len(inner.data) = 3
    /\ vr_seen[vr_last.id] = inner.data
    /\ \E id \in vr_early :
          /\ id # vr_last.id
          /\ vr_seen[id] # <<>> /\ vr_seen[id] # inner.data
          /\ \A i \in 1..Len(readers) : readers[i].id # id

\* the positions of the virtual readers that have not been dropped
LiveOffsets == {readers[i].pos : i \in {j \in 1..Len(readers) : readers[j].alive}}

\* no byte of the cache has been consumed by every live reader
Pruned ==
    /\ 0 \in LiveOffsets
    /\ \A p \in LiveOffsets : 0 <= p /\ p <= Len(cache)
    /\ \A i \in 1..Len(readers) : readers[i].alive

\* C25: SharedStream pruning.  After every read that returns at least one
\* byte the cache holds no byte that every live virtual reader has already
\* consumed: the minimum offset of the live readers is 0 and every live
\* offset is at most the cache length; a dropped virtual reader is excluded
\* from that minimum, so it never prevents pruning.
C25_CacheIsPruned == [][vr_seen' # vr_seen => Pruned']_vars

\* reader 1 was dropped before it read anything; reader 2 has then read the
\* whole source, and nothing of it is left in the cache
C25_Witness ==
    /\ vr_last.op = "read" /\ vr_last.id = 2 /\ vr_last.n > 0
    /\ Len(inner.data) = 3 /\ vr_seen[2] = inner.data
    /\ vr_seen[1] = <<>> /\ vr_forked = 2
    /\ readers = <<[id |-> 2, alive |-> TRUE, pos |-> 0]>>
    /\ cache = <<>>

-----------------------------------------------------------------------------
(* AnySchematicInputStream (stream/any_reader.rs).  An option is a record
   [stream, peek_buf].  The multiplexer takes any SchematicInputStream, so a
   stream is kept as what it is going to do: [id, script, at, end] returns the
   blocks of script in order, at of them so far, and once they are out it
   returns end-of-stream (end = "eos") or a parse error (end = "err"). *)

MaxOptions == 3                \* constructors passed to new
MaxScript == 2                 \* blocks one option can produce
MaxReads == 4                  \* calls of read
MuxLengths == {0, 1, 2}

\* the error of option id, and the one of the multiplexer
ParseError(id) == Err(<<"parse error of option", id>>)
NoMatch == Err(<<"No matching format found">>)

\* the blocks of option id: they differ from those of every other option
Script(id, n) == [k \in 1..n |-> Block(Pos(id, 0, k), stStone)]

OptionStreams(id) ==
    {[id |-> id, script |-> Script(id, n), at |-> 0, end |-> e] :
        n \in 0..MaxScript, e \in {"eos", "err"}}

\* SchematicInputStream::read of an option into an empty scratch buffer:
\* [stream, buffer, res]
OptionRead(st, length) ==
    LET take(n) == [stream |-> [st EXCEPT !.at = @ + n],
                    buffer |-> SubSeq(st.script, st.at + 1, st.at + n),
                    res |-> Ok(Count(n))]
    IN IF st.at < Len(st.script) THEN take(Min(length, Len(st.script) - st.at))
       ELSE [stream |-> st, buffer |-> <<>>,
             res |-> IF st.end = "eos" THEN Ok(EndOfStream) ELSE ParseError(st.id)]

\* the blocks the option has returned so far
Produced(st) == SubSeq(st.script, 1, st.at)

\* read_from_sole_provider, except that the peeked blocks are passed over
read_from_sole_provider_unpeeked(opts, buffer, length) ==
    LET direct(r) ==
            [options |-> <<[stream |-> r.stream, peek_buf |-> opts[1].peek_buf]>>,
             buffer |-> buffer \o r.buffer, res |-> r.res,
             ended |-> IF r.res = Ok(EndOfStream) THEN {[stream |-> r.stream, raced |-> FALSE]} ELSE {}]
    IN direct(OptionRead(opts[1].stream, length))

\* read_from_sole_provider: [options, buffer, res, ended], ended being the
\* options whose read returned end-of-stream in this call, each [stream,
\* raced]: the stream as it ended, and whether it ended in the loop over
\* several options
read_from_sole_provider(opts, buffer, length) ==
    LET drain(count) ==
            [options |-> <<[opts[1] EXCEPT
                              !.peek_buf = SubSeq(@, count + 1, Len(@))]>>,
             buffer |-> buffer \o SubSeq(opts[1].peek_buf, 1, count),
             res |-> Ok(Count(count)), ended |-> {}]
        direct(r) ==
            [options |-> <<[stream |-> r.stream, peek_buf |-> opts[1].peek_buf]>>,
             buffer |-> buffer \o r.buffer, res |-> r.res,
             ended |-> IF r.res = Ok(EndOfStream) THEN {[stream |-> r.stream, raced |-> FALSE]} ELSE {}]
    IN IF opts[1].peek_buf # <<>> THEN drain(Min(Len(opts[1].peek_buf), length))
       ELSE direct(OptionRead(opts[1].stream, length))

\* the first loop of read from option i on: [options, to_remove, closed, ended]
RECURSIVE RaceFrom(_, _, _, _, _, _)
RaceFrom(opts, i, to_remove, cl, ended, length) ==
    LET step(r) ==
            IF r.res.ok /\ r.res.val # EndOfStream
            THEN RaceFrom([opts EXCEPT ![i] = [stream |-> r.stream,
                                                peek_buf |-> @.peek_buf \o r.buffer]],
                          i + 1, to_remove, cl, ended, length)
            ELSE IF r.res.ok
            THEN RaceFrom([opts EXCEPT ![i].stream = r.stream], i + 1,
                          Append(to_remove, i), TRUE, ended \cup {[stream |-> r.stream, raced |-> TRUE]}, length)
            ELSE RaceFrom([opts EXCEPT ![i].stream = r.stream], i + 1,
                          Append(to_remove, i), cl, ended, length)
    IN IF i > Len(opts)
       THEN [options |-> opts, to_remove |-> to_remove, closed |-> cl, ended |-> ended]
       ELSE step(OptionRead(opts[i].stream, length))

\* the second loop of read: options.remove(i) for the indices of to_remove
RemoveOptions(opts, to_remove) ==
    SelectSeq([i \in 1..Len(opts) |-> [opt |-> opts[i], gone |-> \E k \in 1..Len(to_remove) :
                                                                  to_remove[k] = i]],
              LAMBDA o : ~o.gone)

Survivors(opts, to_remove) ==
    LET kept == RemoveOptions(opts, to_remove)
    IN [i \in 1..Len(kept) |-> kept[i].opt]

\* AnySchematicInputStream::read, except that the closed flag is not looked at
\* when no option is left
AnyReadWithoutClosed(opts, cl, buffer, length) ==
    LET sole(r) == [options |-> r.options, closed |-> cl, buffer |-> r.buffer,
                    res |-> r.res, ended |-> r.ended]
        last(raced, r) == [options |-> r.options, closed |-> raced.closed,
                           buffer |-> r.buffer, res |-> r.res,
                           ended |-> raced.ended \cup r.ended]
        decide(raced, left) ==
            IF Len(left) = 0
            THEN [options |-> left, closed |-> raced.closed, buffer |-> buffer,
                  res |-> NoMatch,
                  ended |-> raced.ended]
            ELSE IF Len(left) = 1
            THEN last(raced, read_from_sole_provider(left, buffer, length))
            ELSE [options |-> left, closed |-> raced.closed, buffer |-> buffer,
                  res |-> Ok(Count(0)), ended |-> raced.ended]
        remove(raced) == decide(raced, Survivors(raced.options, raced.to_remove))
    IN IF Len(opts) = 1 THEN sole(read_from_sole_provider(opts, buffer, length))
       ELSE remove(RaceFrom(opts, 1, <<>>, cl, {}, length))

\* AnySchematicInputStream::read: [options, closed, buffer, res, ended]
AnyRead(opts, cl, buffer, length) ==
    LET sole(r) == [options |-> r.options, closed |-> cl, buffer |-> r.buffer,
                    res |-> r.res, ended |-> r.ended]
        last(raced, r) == [options |-> r.options, closed |-> raced.closed,
                           buffer |-> r.buffer, res |-> r.res,
                           ended |-> raced.ended \cup r.ended]
        decide(raced, left) ==
            IF Len(left) = 0
            THEN [options |-> left, closed |-> raced.closed, buffer |-> buffer,
                  res |-> IF raced.closed THEN Ok(EndOfStream)
                          ELSE NoMatch,
                  ended |-> raced.ended]
            ELSE IF Len(left) = 1
            THEN last(raced, read_from_sole_provider(left, buffer, length))
            ELSE [options |-> left, closed |-> raced.closed, buffer |-> buffer,
                  res |-> Ok(Count(0)), ended |-> raced.ended]
        remove(raced) == decide(raced, Survivors(raced.options, raced.to_remove))
    IN IF Len(opts) = 1 THEN sole(read_from_sole_provider(opts, buffer, length))
       ELSE remove(RaceFrom(opts, 1, <<>>, cl, {}, length))

\* AnySchematicInputStream::new with up to MaxOptions constructors
InitMux ==
    /\ StoreIdle
    /\ StateIdle
    /\ CodecIdle
    /\ SharedIdle
    /\ InputIdle
    /\ GeomIdle
    /\ VarIntIdle
    /\ \E n \in 0..MaxOptions :
       \E streams \in [1..n -> UNION {OptionStreams(id) : id \in 1..MaxOptions}] :
          /\ \A i \in 1..n : streams[i].id = i
          /\ options = [i \in 1..n |-> [stream |-> streams[i], peek_buf |-> <<>>]]
    /\ closed = FALSE
    /\ mx_out = <<>>
    /\ mx_ended = {}
    /\ mx_last = [op |-> "none", res |-> Ok(Unit), reads |-> 0, drained |-> 0]

\* AnySchematicInputStream::read into an empty buffer
ReadAny(length) ==
    /\ mx_last.reads < MaxReads
    /\ \E r \in {AnyRead(options, closed, <<>>, length)} :
          /\ options' = r.options
          /\ closed' = r.closed
          /\ mx_out' = mx_out \o r.buffer
          /\ mx_ended' = mx_ended \cup r.ended
          /\ mx_last' = [op |-> "read", length |-> length, appended |-> r.buffer,
                         res |-> r.res, sole |-> Len(options) = 1,
                         peeked |-> IF Len(options) = 1 THEN options[1].peek_buf ELSE <<>>,
                         reads |-> mx_last.reads + 1,
                         drained |-> IF Len(options) = 1 /\ options[1].peek_buf # <<>>
                                     THEN mx_last.drained + Len(r.buffer)
                                     ELSE mx_last.drained]
    /\ UNCHANGED nonMuxVars

NextMux == \E length \in MuxLengths : ReadAny(length)

SpecMux == InitMux /\ [][NextMux]_vars

\* C5: while exactly one option is left, what the reads have appended to the
\* caller's buffers followed by what is still peeked is what that option has
\* returned, in its order: nothing skipped, duplicated or reordered, the
\* peeked blocks first; a read served from the peeked blocks hands out their
\* first min(number peeked, length) and a read of the sole option returns the
\* count it appended.
C5_SoleOptionInOrder ==
    /\ Len(options) = 1 => mx_out \o options[1].peek_buf = Produced(options[1].stream)
    /\ (mx_last.op = "read" /\ mx_last.sole /\ mx_last.peeked # <<>>) =>
          /\ mx_last.appended
                = SubSeq(mx_last.peeked, 1, Min(Len(mx_last.peeked), mx_last.length))
          /\ mx_last.res = Ok(Count(Len(mx_last.appended)))
    /\ (mx_last.op = "read" /\ Len(options) = 1 /\ mx_last.res.ok
        /\ mx_last.res.val # EndOfStream) =>
          mx_last.res.val = Count(Len(mx_last.appended))

\* one option is left after a race it was peeked in; a read handed out its
\* peeked block and the next one, a direct read, returned one more block
C5_Witness ==
    /\ Len(options) = 1
    /\ mx_last.op = "read" /\ mx_last.sole /\ mx_last.peeked = <<>>
    /\ mx_last.drained = 1
    /\ Len(mx_last.appended) = 1
    /\ Len(mx_out) = 2

C26_CleanOptionKeepsItsBlocks ==
    (mx_last.op = "read" /\ mx_last.res = Ok(EndOfStream)) =>
        \A e \in {x \in mx_ended : x.raced} :
            \A k \in 1..Len(Produced(e.stream)) :
                \E j \in 1..Len(mx_out) : mx_out[j] = Produced(e.stream)[k]

-----------------------------------------------------------------------------
(* The readers of the grid formats (stream/mojang_reader.rs,
   stream/sponge_reader.rs, stream/mcedit_reader.rs).  fastnbt decodes the
   bytes of a file; a file is kept as the NBT value it decodes to, a compound
   being a record or a function from names.  A LazyPaletteBlockStoreWrapper
   held by a reader is the record of its inner PagedBlockStore's fields with
   temp_palette and actual_palette. *)

NoStore == [absent |-> TRUE]           \* Option::None of a store
None == [some |-> FALSE]               \* Option::None of a value
Some(v) == [some |-> TRUE, val |-> v]

\* LazyPaletteBlockStoreWrapper::from over PagedBlockStore::new_for_boundary
WrapperFrom(st) ==
    [boundary |-> st.boundary, bits |-> st.bits, fixed_size |-> st.fixed_size,
     pages |-> <<>>, palette |-> <<>>, temp_palette |-> <<>>, actual_palette |-> NoPalette]

\* set_unknown_block and set_unknown_block_at: [wrapper, res]
set_unknown_block(wr, p, id) ==
    LET stored(t, r) ==
            [wrapper |-> [wr EXCEPT !.temp_palette = t[2], !.boundary = r.boundary,
                                    !.pages = r.pages, !.palette = r.palette],
             res |-> r.res]
        with_state(t) ==
            stored(t, PagedSetBlockAt(wr.boundary, wr.pages, wr.palette, wr.bits,
                                      wr.fixed_size, p, t[1]))
    IN with_state(temp_state_from_temp_id(wr.temp_palette, id))

\* LazyPaletteBlockStoreWrapper::set_actual_palette
set_actual_palette(wr, m) == [wr EXCEPT !.actual_palette = SomePalette(m)]

\* LazyPaletteBlockStoreWrapper::block_at on a wrapper value
WrapperBlockAt(wr, p) ==
    LazyBlockAt(wr.boundary, wr.pages, wr.palette, wr.bits, wr.actual_palette, p)

-----------------------------------------------------------------------------
(* MojangSchematicInputStream.  A reader is a record [file, header_read,
   size, blocks, current_index].  The file is the structure compound
   [DataVersion, size, palette, blocks]; the parser meets its lists in that
   order, and a list that is not in the file is not met. *)

\* MojangSchematicInputStream::new
MojangReaderNew(file) ==
    [file |-> file, header_read |-> FALSE, size |-> <<0, 0, 0>>, blocks |-> NoStore,
     current_index |-> 0]

\* BlockState::from_name_and_properties; the properties come in the order of
\* the HashMap, which is the file's for the entries here (at most one each)
from_name_and_properties(name, properties) == BlockStateNew(name, properties)

\* extract_palette_from_nbt_stream: the k-th entry of the list gets index k - 1
extract_palette_from_nbt_stream(wr, entries) ==
    set_actual_palette(wr,
        [k \in 0..(Len(entries) - 1) |->
            from_name_and_properties(entries[k + 1].Name, entries[k + 1].Properties)])

\* read_blocks_from_nbt_stream: set_unknown_block_at for every entry, the
\* coordinates cast to usize and back to i32: [wrapper, res]
RECURSIVE read_blocks_from_nbt_stream(_, _, _)
read_blocks_from_nbt_stream(wr, entries, i) ==
    LET after(r) == IF ~r.res.ok THEN r
                    ELSE read_blocks_from_nbt_stream(r.wrapper, entries, i + 1)
    IN IF i > Len(entries) THEN [wrapper |-> wr, res |-> Ok(Unit)]
       ELSE after(set_unknown_block(wr, entries[i].pos, entries[i].state))

\* read_schematic_header: [rd, res]
read_schematic_header(rd) ==
    LET has(name) == name \in DOMAIN rd.file
        done(size, r) == [rd |-> [rd EXCEPT !.size = size, !.blocks = r.wrapper], res |-> r.res]
        with_palette(size, wr) ==
            done(size, IF has("blocks") THEN read_blocks_from_nbt_stream(wr, rd.file.blocks, 1)
                       ELSE [wrapper |-> wr, res |-> Ok(Unit)])
        with_store(size, wr) ==
            with_palette(size, IF has("palette")
                               THEN extract_palette_from_nbt_stream(wr, rd.file.palette)
                               ELSE wr)
        with_size(size) ==
            IF has("palette") \/ has("blocks")
            THEN with_store(size, WrapperFrom(empty_from_size(
                     <<Max(size[1], 16), Max(size[2], 16), Max(size[3], 16)>>, FALSE)))
            ELSE [rd |-> [rd EXCEPT !.size = size], res |-> Ok(Unit)]
    IN with_size(IF has("size") THEN rd.file.size ELSE rd.size)

\* the for loop of read over wrapper.iter(XYZ).skip(current_index): an absent
\* cell is pushed as air: [rd, buffer, res]
RECURSIVE MojangReadLoop(_, _, _, _, _)
MojangReadLoop(rd, sk, buffer, read_blocks, length) ==
    LET push(r, got) ==
            IF ~got.ok THEN [rd |-> rd, buffer |-> buffer, res |-> got]
            ELSE MojangReadLoop(rd, r.sk,
                     Append(buffer, Block(r.item, IF got.val = NoBlock THEN air ELSE got.val)),
                     read_blocks + 1, length)
        at(r) ==
            IF r.item = NoPos \/ read_blocks >= length
            THEN IF read_blocks = 0
                 THEN [rd |-> rd, buffer |-> buffer, res |-> Ok(EndOfStream)]
                 ELSE [rd |-> [rd EXCEPT !.current_index = @ + read_blocks],
                       buffer |-> buffer, res |-> Ok(Count(read_blocks))]
            ELSE push(r, WrapperBlockAt(rd.blocks, r.item))
    IN at(SkipNext(rd.blocks.boundary, "XYZ", sk))

\* MojangSchematicInputStream::read: [rd, buffer, res]
MojangRead(rd, buffer, length) ==
    LET then_blocks(h) ==
            IF ~h.res.ok
            THEN [rd |-> h.rd, buffer |-> buffer, res |-> Err("Error reading schematic header")]
            ELSE IF h.rd.blocks = NoStore
            THEN [rd |-> h.rd, buffer |-> buffer, res |-> Ok(EndOfStream)]
            ELSE MojangReadLoop(h.rd, [it |-> BoundaryIter(h.rd.blocks.boundary),
                                       n |-> h.rd.current_index],
                                buffer, 0, length)
    IN then_blocks(IF ~rd.header_read THEN read_schematic_header([rd EXCEPT !.header_read = TRUE])
                   ELSE [rd |-> rd, res |-> Ok(Unit)])

-----------------------------------------------------------------------------
(* SpongeSchematicInputStream.  A reader is a record [file, consumed,
   header_read, blocks, read_blocks, boundary, checks]: file is the root
   compound fastnbt::from_reader decodes, consumed tells that from_reader has
   drained the source, and checks that the build panics on overflow. *)

\* SpongeSchematicInputStream::new
SpongeReaderNew(file, checks) ==
    [file |-> file, consumed |-> FALSE, header_read |-> FALSE, blocks |-> NoStore,
     read_blocks |-> 0, boundary |-> NoBoundary, checks |-> checks]

\* i8 as u8
AsU8(b) == IF b < 0 THEN b + 256 ELSE b

\* a | b on i32, b not negative and below 2^31
OrI32(a, b) ==
    IF a >= 0 THEN BitOr(a, b)
    ELSE BitOr(a + Pow2(30) + Pow2(30), b) - Pow2(30) - Pow2(30)

\* the loops of read_var_int_array from the byte at idx; value and shift
\* are those of the integer being read.  value |= ((byte & 0x7F) as i32) << shift
\* reaches the sign bit at shift 28 and shifts by more than the width at 35:
\* the build with overflow checks panics there, the other one shifts by 35 % 32
RECURSIVE ReadVarIntArrayFrom(_, _, _, _, _, _)
ReadVarIntArrayFrom(data, idx, value, shift, integers, checks) ==
    LET low(byte) == byte % 128
        shifted(byte) ==
            IF shift < 28 THEN value + low(byte) * Pow2(shift)
            ELSE IF shift = 28
            THEN (value + (low(byte) % 8) * Pow2(28))
                 - ((low(byte) \div 8) % 2) * Pow2(30) - ((low(byte) \div 8) % 2) * Pow2(30)
            ELSE OrI32(value, low(byte) * Pow2(shift % 32))
        with_value(byte, value1) ==
            IF byte < 128
            THEN IF idx + 1 < Len(data)
                 THEN ReadVarIntArrayFrom(data, idx + 1, 0, 0, Append(integers, value1), checks)
                 ELSE Ok(Append(integers, value1))
            ELSE IF shift + 7 > 35 THEN Err("Sponge: VarInt is too big")
            ELSE ReadVarIntArrayFrom(data, idx + 1, value1, shift + 7, integers, checks)
    IN IF idx >= Len(data) THEN Err("Sponge: VarInt array ended unexpectedly")
       ELSE IF shift >= 32 /\ checks THEN Panic
       ELSE with_value(data[idx + 1], shifted(data[idx + 1]))

\* SpongeSchematicInputStream::read_var_int_array
read_var_int_array(data, checks) ==
    IF data = <<>> THEN Ok(<<>>) ELSE ReadVarIntArrayFrom(data, 0, 0, 0, <<>>, checks)

\* process_palette: [wrapper, res].  The compound is a function from names to
\* ids.  The entry the HashMap yields first among those from_string rejects
\* decides the error, and the entry it yields last among those of one id
\* decides the state; the files here have at most one of either
process_palette(wr, palette_compound) ==
    LET names == DOMAIN palette_compound
        rejected == {n \in names : ~from_string(n).ok}
        ids == {palette_compound[n] : n \in names}
        states == [id \in ids |->
                      from_string(CHOOSE n \in names : palette_compound[n] = id).val]
    IN IF rejected # {}
       THEN [wrapper |-> wr,
             res |-> IF from_string(CHOOSE n \in rejected : TRUE) = Panic THEN Panic
                     ELSE Err("Sponge: Failed to process palette")]
       ELSE [wrapper |-> set_actual_palette(wr, states), res |-> Ok(Unit)]

\* the for loop of process_blocks over boundary.iter(YZX): [wrapper, res]
RECURSIVE SpongeSetBlocks(_, _, _, _, _)
SpongeSetBlocks(wr, b, it, block_states, i) ==
    LET stored(nx, r) ==
            IF ~r.res.ok
            THEN [wrapper |-> r.wrapper, res |-> Err("Sponge: Failed to process blocks")]
            ELSE SpongeSetBlocks(r.wrapper, b, nx.it, block_states, i + 1)
        at(nx) ==
            IF nx.item = NoPos
            THEN [wrapper |-> wr, res |-> Err("Sponge: Failed to process blocks")]
            ELSE stored(nx, set_unknown_block(wr, nx.item, block_states[i]))
    IN IF i > Len(block_states) THEN [wrapper |-> wr, res |-> Ok(Unit)]
       ELSE at(IterNext(b, "YZX", it))

\* process_blocks: [wrapper, res]
process_blocks(wr, b, byte_array, checks) ==
    LET with_states(block_states) ==
            IF block_states = Panic THEN [wrapper |-> wr, res |-> Panic]
            ELSE IF ~block_states.ok
            THEN [wrapper |-> wr, res |-> Err("Sponge: Failed to process blocks")]
            ELSE SpongeSetBlocks(wr, b, BoundaryIter(b), block_states.val, 1)
    IN with_states(read_var_int_array([i \in 1..Len(byte_array) |-> AsU8(byte_array[i])],
                                      checks))

\* SpongeSchematicInputStream::read_header: [rd, res]; header_read is set
\* only when the palette and the blocks were processed
SpongeReadHeader(rd) ==
    LET failed(rd1, m) == [rd |-> rd1, res |-> Err(m)]
        with_blocks(rd1, r) ==
            [rd |-> [rd1 EXCEPT !.blocks = r.wrapper, !.header_read = r.res.ok], res |-> r.res]
        with_palette(rd1, schematic, r) ==
            IF ~r.res.ok THEN [rd |-> rd1, res |-> r.res]
            ELSE with_blocks(rd1,
                     process_blocks(r.wrapper, rd1.boundary,
                                    IF "Blocks" \in DOMAIN schematic THEN schematic.Blocks.Data
                                    ELSE schematic.BlockData,
                                    rd1.checks))
        with_store(rd1, schematic) ==
            with_palette(rd1, schematic,
                process_palette(rd1.blocks,
                                IF "Blocks" \in DOMAIN schematic THEN schematic.Blocks.Palette
                                ELSE schematic.Palette))
        with_schematic(rd1, schematic) ==
            with_store([rd1 EXCEPT
                           !.boundary = NewBoundary(0, 0, 0, schematic.Width,
                                                    schematic.Height, schematic.Length),
                           !.blocks = WrapperFrom(empty_from_size(
                               <<schematic.Width, schematic.Height, schematic.Length>>, TRUE))],
                       schematic)
        with_root(rd1) ==
            IF "Schematic" \notin DOMAIN rd1.file
            THEN failed(rd1, "Sponge: Missing 'Schematic' tag")
            ELSE IF {"Height", "Length", "Width"} \ DOMAIN rd1.file.Schematic # {}
            THEN failed(rd1, "Sponge: Missing or invalid size tag")
            ELSE with_schematic(rd1, rd1.file.Schematic)
    IN IF rd.consumed THEN failed(rd, "Sponge: Failed to read NBT data")
       ELSE with_root([rd EXCEPT !.consumed = TRUE])

\* the while loop of read over boundary.iter(XYZ).skip(read_blocks): [rd, buffer, res]
RECURSIVE SpongeReadLoop(_, _, _, _, _)
SpongeReadLoop(rd, sk, buffer, blocks_written, length) ==
    LET finished ==
            [rd |-> rd, buffer |-> buffer,
             res |-> IF blocks_written = 0 /\ length > 0 THEN Ok(EndOfStream)
                     ELSE Ok(Count(blocks_written))]
        push(nx, got, keep) ==
            SpongeReadLoop([rd EXCEPT !.read_blocks = @ + 1], nx.sk,
                           IF keep THEN Append(buffer, Block(nx.item, got.val)) ELSE buffer,
                           IF keep THEN blocks_written + 1 ELSE blocks_written,
                           length)
        looked(nx, got) ==
            IF ~got.ok THEN [rd |-> rd, buffer |-> buffer, res |-> got]
            ELSE push(nx, got, got.val # NoBlock /\ ~is_air(got.val))
        at(nx) == IF nx.item = NoPos THEN finished
                  ELSE looked(nx, WrapperBlockAt(rd.blocks, nx.item))
    IN IF ~(blocks_written < length) THEN finished
       ELSE at(SkipNext(rd.boundary, "XYZ", sk))

\* SpongeSchematicInputStream::read: [rd, buffer, res]
SpongeRead(rd, buffer, length) ==
    LET then_blocks(h) ==
            IF ~h.res.ok THEN [rd |-> h.rd, buffer |-> buffer, res |-> h.res]
            ELSE IF h.rd.boundary = NoBoundary \/ h.rd.blocks = NoStore
            THEN [rd |-> h.rd, buffer |-> buffer, res |-> Err("Sponge: Header not properly read")]
            ELSE SpongeReadLoop(h.rd, [it |-> BoundaryIter(h.rd.boundary), n |-> h.rd.read_blocks],
                                buffer, 0, length)
    IN then_blocks(IF ~rd.header_read THEN SpongeReadHeader(rd)
                   ELSE [rd |-> rd, res |-> Ok(Unit)])

-----------------------------------------------------------------------------
(* MCEditSchematicInputStream.  A reader is a record [file, consumed,
   header_read, blocks, read_blocks, boundary]; blocks is a PagedBlockStore
   [boundary, bits, fixed_size, pages, palette].  The file is the root
   compound [Width, Height, Length, Blocks, Data] with AddBlocks and BlockIds
   when it has them. *)

sFire == <<"f","i","r","e">>
sGranite == <<"g","r","a","n","i","t","e">>
sAge == <<"a","g","e">>

\* an excerpt of legacy_ids.json: stone, one of its variants, and fire
LegacyBlocks ==
    [key \in {<<"1">>, <<"1",":","1">>, <<"5","1">>} |->
        IF key = <<"1">> THEN minecraft \o COLON \o sStone
        ELSE IF key = <<"5","1">> THEN minecraft \o COLON \o sFire
        ELSE minecraft \o COLON \o sGranite]

\* get_legacy_type
get_legacy_type(id, data) ==
    LET found(key) == IF key \in DOMAIN LegacyBlocks THEN Some(LegacyBlocks[key]) ELSE None
    IN found(IF data = 0 THEN IntToString(id)
             ELSE IntToString(id) \o COLON \o IntToString(data))

\* convert_legacy_data_to_modern_properties for fire (51) and for the ids no
\* arm of the match names; the other families are not read here
convert_legacy_data_to_modern_properties(id, data) ==
    LET plain(by_id, by_data) ==
            IF by_id.some THEN Some(BlockStateNew(by_id.val, <<>>))
            ELSE IF by_data.some THEN Some(BlockStateNew(by_data.val, <<>>))
            ELSE None
        fire(block_type) ==
            IF ~block_type.some THEN None
            ELSE Some(BlockStateNew(block_type.val, << <<sAge, IntToString(data % 16)>> >>))
    IN IF id = 51 THEN fire(get_legacy_type(id, 0))
       ELSE plain(get_legacy_type(id, 0), get_legacy_type(id, data))

\* MCEditSchematicInputStream::new
MCEditReaderNew(file) ==
    [file |-> file, consumed |-> FALSE, header_read |-> FALSE, blocks |-> NoStore,
     read_blocks |-> 0, boundary |-> NoBoundary]

\* read_block_id; an index past the end of a slice panics
read_block_id(block_ids, idx, add_blocks) ==
    IF idx >= Len(block_ids) THEN Panic
    ELSE IF ~add_blocks.some THEN Ok(block_ids[idx + 1])
    ELSE IF idx \div 2 >= Len(add_blocks.val) THEN Panic
    ELSE Ok(block_ids[idx + 1]
            + 256 * (IF idx % 2 = 0 THEN add_blocks.val[(idx \div 2) + 1] % 16
                     ELSE add_blocks.val[(idx \div 2) + 1] \div 16))

\* specified_block_ids: the entries of BlockIds whose value parses as an
\* i32, turned around
specified_block_ids(file) ==
    IF "BlockIds" \notin DOMAIN file THEN None
    ELSE LET names == {k \in DOMAIN file.BlockIds : ParseInt(file.BlockIds[k]).ok}
             ids == {ParseInt(file.BlockIds[k]).val : k \in names}
         IN Some([id \in ids |-> CHOOSE k \in names : ParseInt(file.BlockIds[k]).val = id])

\* the state of a cell whose id is not 0: the name BlockIds gives, else the
\* name of the table, parsed by from_string; else what the decoder makes of
\* (id, data); else air
MCEditBlockState(specified, block_id, block_data) ==
    LET decoded(state) == IF state.some THEN Ok(state.val) ELSE Ok(air)
        named(block_name) ==
            IF block_name.some THEN from_string(block_name.val)
            ELSE decoded(convert_legacy_data_to_modern_properties(block_id, block_data))
    IN named(IF specified.some /\ block_id \in DOMAIN specified.val
             THEN Some(specified.val[block_id])
             ELSE get_legacy_type(block_id, block_data))

\* the for loop of read_nbt over boundary.iter(YZX), idx counting the
\* positions: [store, res]
RECURSIVE MCEditSetBlocks(_, _, _, _, _, _, _)
MCEditSetBlocks(store, positions, idx, block_ids, block_data, add_blocks, specified) ==
    LET stored(r) ==
            IF ~r.res.ok
            THEN [store |-> [store EXCEPT !.boundary = r.boundary, !.pages = r.pages,
                                          !.palette = r.palette],
                  res |-> r.res]
            ELSE MCEditSetBlocks([store EXCEPT !.boundary = r.boundary, !.pages = r.pages,
                                               !.palette = r.palette],
                                 positions, idx + 1, block_ids, block_data, add_blocks, specified)
        with_state(block_state) ==
            IF ~block_state.ok THEN [store |-> store, res |-> block_state]
            ELSE stored(PagedSetBlockAt(store.boundary, store.pages, store.palette, store.bits,
                                        store.fixed_size, positions[idx + 1], block_state.val))
        with_id(block_id) ==
            IF ~block_id.ok THEN [store |-> store, res |-> block_id]
            ELSE IF idx >= Len(block_data) THEN [store |-> store, res |-> Panic]
            ELSE IF block_id.val # 0
            THEN with_state(MCEditBlockState(specified, block_id.val, block_data[idx + 1] % 16))
            ELSE MCEditSetBlocks(store, positions, idx + 1, block_ids, block_data,
                                 add_blocks, specified)
    IN IF idx >= Len(positions) THEN [store |-> store, res |-> Ok(Unit)]
       ELSE with_id(read_block_id(block_ids, idx, add_blocks))

\* MCEditSchematicInputStream::read_nbt: [rd, res]
read_nbt(rd) ==
    LET failed(rd1, m) == [rd |-> rd1, res |-> Err(m)]
        u8(bytes) == [i \in 1..Len(bytes) |-> AsU8(bytes[i])]
        with_blocks(rd1, r) == [rd |-> [rd1 EXCEPT !.blocks = r.store], res |-> r.res]
        with_store(rd1) ==
            with_blocks(rd1,
                MCEditSetBlocks(rd1.blocks, IterAll(rd1.boundary, "YZX"), 0,
                                u8(rd1.file.Blocks), u8(rd1.file.Data),
                                IF "AddBlocks" \in DOMAIN rd1.file
                                THEN Some(u8(rd1.file.AddBlocks)) ELSE None,
                                specified_block_ids(rd1.file)))
        with_boundary(rd1, b) ==
            with_store([rd1 EXCEPT !.boundary = b, !.blocks = new_for_fixed_boundary(b)])
        with_root(rd1) ==
            IF {"Width", "Height", "Length", "Blocks", "Data"} \ DOMAIN rd1.file # {}
            THEN failed(rd1, "Sponge: Missing or invalid tag")
            ELSE with_boundary(rd1, NewBoundary(0, 0, 0, rd1.file.Width, rd1.file.Height,
                                                rd1.file.Length))
    IN IF rd.header_read THEN failed(rd, "Sponge: NBT header has already been read")
       ELSE IF rd.blocks # NoStore
       THEN failed(rd, "Sponge: Blocks have already been read, cannot read NBT header")
       ELSE IF rd.consumed THEN failed(rd, "Sponge: Failed to read NBT data")
       ELSE with_root([rd EXCEPT !.consumed = TRUE])

\* the while loop of read over boundary.iter(XYZ).skip(read_blocks): [rd, buffer, res]
RECURSIVE MCEditReadLoop(_, _, _, _, _)
MCEditReadLoop(rd, sk, buffer, blocks_written, length) ==
    LET finished ==
            [rd |-> rd, buffer |-> buffer,
             res |-> IF blocks_written = 0 /\ length > 0 THEN Ok(EndOfStream)
                     ELSE Ok(Count(blocks_written))]
        push(nx, got, keep) ==
            MCEditReadLoop([rd EXCEPT !.read_blocks = @ + 1], nx.sk,
                           IF keep THEN Append(buffer, Block(nx.item, got.val)) ELSE buffer,
                           IF keep THEN blocks_written + 1 ELSE blocks_written,
                           length)
        looked(nx, got) ==
            IF ~got.ok THEN [rd |-> rd, buffer |-> buffer, res |-> got]
            ELSE push(nx, got, got.val # NoBlock /\ ~is_air(got.val))
        at(nx) == IF nx.item = NoPos THEN finished
                  ELSE looked(nx, PagedBlockAt(rd.blocks.boundary, rd.blocks.pages,
                                               rd.blocks.palette, rd.blocks.bits, nx.item))
    IN IF ~(blocks_written < length) THEN finished
       ELSE at(SkipNext(rd.boundary, "XYZ", sk))

\* MCEditSchematicInputStream::read: [rd, buffer, res]
MCEditRead(rd, buffer, length) ==
    LET then_blocks(h) ==
            IF ~h.res.ok THEN [rd |-> h.rd, buffer |-> buffer, res |-> h.res]
            ELSE IF h.rd.boundary = NoBoundary \/ h.rd.blocks = NoStore
            THEN [rd |-> h.rd, buffer |-> buffer, res |-> Err("Sponge: Header not properly read")]
            ELSE MCEditReadLoop(h.rd, [it |-> BoundaryIter(h.rd.boundary), n |-> h.rd.read_blocks],
                                buffer, 0, length)
        after_nbt(h) ==
            then_blocks(IF h.res.ok THEN [rd |-> [h.rd EXCEPT !.header_read = TRUE], res |-> h.res]
                        ELSE h)
    IN IF ~rd.header_read THEN after_nbt(read_nbt(rd))
       ELSE then_blocks([rd |-> rd, res |-> Ok(Unit)])

-----------------------------------------------------------------------------
(* Specification of the four readers: a reader is opened on a file, then
   read is called with any lengths.  The Mojang, Sponge and VXL files are
   those the writers produce for a few block lists, with some files no
   writer produces; the MCEdit files are made of their fields. *)

MaxInputReads == 3             \* calls of read on one reader

InputLengths == {0, 1, 2}

\* the block lists given to the writers: none, one block, and two blocks at
\* the first two positions of the boundary
InputBlockLists ==
    {<<>>} \cup BlockLists(1)
    \cup {<<Block(Pos(0, 0, 0), st1), Block(Pos(0, 0, 1), st2)>> :
             st1 \in CodecStates, st2 \in CodecStates}

\* what MojangSchematicOutputStream produces, a file without lists, and a
\* file whose block names a state the palette lacks
MojangFiles ==
    {MojangComplete(MojangWrite(MojangWriterNew, blocks).w).w.out[1] : blocks \in InputBlockLists}
    \cup {[DataVersion |-> 3465, size |-> <<1, 1, 1>>],
          [DataVersion |-> 3465, size |-> <<1, 1, 1>>,
           palette |-> <<PaletteEntry(stStone)>>,
           blocks |-> <<[pos |-> Pos(0, 0, 0), state |-> 0], [pos |-> Pos(1, 0, 0), state |-> 1]>>]}

\* a Sponge schematic of size 1 x 1 x 2 with the given palette and data
SpongeFile(pal, data) ==
    [Schematic |-> [Width |-> 1, Height |-> 1, Length |-> 2, Palette |-> pal, BlockData |-> data]]

\* what SpongeSchematicOutputStream produces, a file of another format, and
\* files with a name from_string rejects, with more cells than the boundary,
\* with a cut-off integer, and with an integer of six bytes
SpongeFiles ==
    {SpongeComplete(SpongeWrite(SpongeWriterNew(CodecBoundary), blocks).w, "first").w.out[1] :
        blocks \in InputBlockLists}
    \cup {[DataVersion |-> 3465, size |-> <<1, 1, 1>>],
          SpongeFile([n \in {minecraft \o COLON \o sStone \o <<"]">>} |-> 0], <<0, 0>>),
          SpongeFile([n \in {minecraft \o COLON \o sStone} |-> 0], <<0, 0, 0>>),
          SpongeFile([n \in {minecraft \o COLON \o sStone} |-> 0], <<0, -128>>),
          SpongeFile([n \in {minecraft \o COLON \o sStone} |-> 0],
                     <<0, -128, -128, -128, -128, -128, 0>>),
          \* 2 x 1 x 2, stone in every cell
          [Schematic |-> [Width |-> 2, Height |-> 1, Length |-> 2,
                          Palette |-> [n \in {minecraft \o COLON \o sStone} |-> 0],
                          BlockData |-> <<0, 0, 0, 0>>]]}

\* MCEdit schematics of size 2 x 1 x 1: stone, fire and cells of id 0, data
\* values the table knows and does not know, an AddBlocks array that lifts
\* the ids out of the table, and a BlockIds compound that renames stone
MCEditFiles ==
    {[Width |-> 2, Height |-> 1, Length |-> 1, Blocks |-> blocks, Data |-> data] :
        blocks \in {<<1, 0>>, <<1, 51>>, <<0, 0>>, <<1>>}, data \in {<<0, 0>>, <<1, 3>>, <<5, 0>>}}
    \cup {[Width |-> 2, Height |-> 1, Length |-> 1, Blocks |-> <<1, 51>>, Data |-> <<0, 0>>,
           AddBlocks |-> add_blocks] : add_blocks \in {<<-16>>, <<15>>, <<>>}}
    \cup {[Width |-> 2, Height |-> 1, Length |-> 1, Blocks |-> <<1, 1>>, Data |-> <<0, 1>>,
           BlockIds |-> [n \in {name} |-> <<"1">>]] :
             name \in {minecraft \o COLON \o sDirt, minecraft \o COLON \o sDirt \o <<"]">>}}
    \* 2 x 1 x 2, stone in every cell
    \cup {[Width |-> 2, Height |-> 1, Length |-> 2, Blocks |-> <<1, 1, 1, 1>>,
           Data |-> <<0, 0, 0, 0>>]}

\* what VXLSchematicOutputStream produces, an empty file, and a header
\* followed by the first byte of a two-byte command
VxlFiles ==
    {VxlComplete(VxlWrite(VxlWriterNew(order, CodecBoundary), blocks, "first", FALSE).w).w.out :
        order \in CodecAxisOrders, blocks \in InputBlockLists}
    \cup {<<>>}
    \cup {write_header(VxlWriterNew("XYZ", CodecBoundary)).w.out \o <<128>>}

InitInput ==
    /\ GeomIdle
    /\ VarIntIdle
    /\ StoreIdle
    /\ StateIdle
    /\ CodecIdle
    /\ SharedIdle
    /\ MuxIdle
    /\ \/ /\ in_kind = "mojang"
          /\ \E file \in MojangFiles : in_reader = MojangReaderNew(file)
       \/ /\ in_kind = "sponge"
          /\ \E file \in SpongeFiles, checks \in BOOLEAN : in_reader = SpongeReaderNew(file, checks)
       \/ /\ in_kind = "mcedit"
          /\ \E file \in MCEditFiles : in_reader = MCEditReaderNew(file)
       \/ /\ in_kind = "vxl"
          /\ \E bytes \in VxlFiles, broken \in BOOLEAN : in_reader = VxlReaderOver(bytes, broken)
    /\ in_blocks = <<>>
    /\ in_last = [op |-> "none", res |-> Ok(Unit), reads |-> 0]

\* SchematicInputStream::read of the reader under test: [rd, buffer, res]
ReadOf(kind, rd, buffer, length) ==
    CASE kind = "mojang" -> MojangRead(rd, buffer, length)
      [] kind = "sponge" -> SpongeRead(rd, buffer, length)
      [] kind = "mcedit" -> MCEditRead(rd, buffer, length)
      [] kind = "vxl" -> VxlRead(rd, buffer, length)

\* SchematicInputStream::read into an empty buffer; nothing is called on a
\* reader that unwound
ReadInput(length) ==
    /\ in_kind # "none"
    /\ in_last.reads < MaxInputReads
    /\ in_last.res # Panic
    /\ \E r \in {ReadOf(in_kind, in_reader, <<>>, length)} :
          /\ in_reader' = r.rd
          /\ in_blocks' = in_blocks \o r.buffer
          /\ in_last' = [op |-> "read", length |-> length, appended |-> r.buffer,
                         res |-> r.res, reads |-> in_last.reads + 1]
    /\ UNCHANGED in_kind
    /\ UNCHANGED nonInputVars

NextInput == \E length \in InputLengths : ReadInput(length)

SpecInput == InitInput /\ [][NextInput]_vars

(* C4: every call of read, on a Mojang, Sponge, MCEdit or VXL reader,
   appends at most `length` blocks, appends no block whose state is air,
   and, when it returns a value, returns end-of-stream or the number of
   blocks it appended. *)
C4_ReadAppendsNonAirUpToLength ==
    in_last.op = "read" =>
        /\ Len(in_last.appended) <= in_last.length
        /\ \A i \in 1..Len(in_last.appended) : ~is_air(in_last.appended[i].state)
        /\ in_last.res.ok =>
              \/ in_last.res.val = EndOfStream
              \/ in_last.res.val = Count(Len(in_last.appended))

\* C18: an error that the byte source returns while the VXL reader reads,
\* in the header or in the body, and the end of the source in the middle of
\* a command, are reported by that read as an error, never as end-of-stream
\* and never as a read that succeeded.
C18_SourceErrorIsReported ==
    (in_kind = "vxl" /\ in_last.op = "read" /\ (in_reader.io_error \/ in_reader.cut)) =>
        ~in_last.res.ok

\* C17: the Sponge and MCEdit readers return blocks from read in their
\* declared YZX traversal order (Y outermost, X fastest): over the successive
\* reads of one stream the YZX index of the returned positions is strictly
\* increasing.
C17_SpongeMCEditReadInYZX ==
    in_kind \in {"sponge", "mcedit"} =>
        \A i \in 1..Len(in_blocks) : \A j \in 1..Len(in_blocks) :
            i < j => index("YZX", in_blocks[i].position, in_reader.boundary)
                       < index("YZX", in_blocks[j].position, in_reader.boundary)

\* the ids whose family has an arm in the decoder, among those of LegacyBlocks
DecoderFamilies == {51}

\* the (id, data) of the cell at position p of the MCEdit file of reader rd
MCEditCell(rd, p) ==
    LET u8(bytes) == [i \in 1..Len(bytes) |-> AsU8(bytes[i])]
        idx == index("YZX", p, rd.boundary)
    IN [id |-> read_block_id(u8(rd.file.Blocks), idx,
                             IF "AddBlocks" \in DOMAIN rd.file
                             THEN Some(u8(rd.file.AddBlocks)) ELSE None).val,
        data |-> AsU8(rd.file.Data[idx + 1]) % 16]

\* C22: MCEdit decoding.  For every cell whose (id, data) belongs to a family
\* the per-ID decoder handles, the block the MCEdit reader produces is the
\* decoder's state with its data-derived properties; the plain-name lookup
\* in the table is used only for what the decoder does not resolve.
C22_DecoderStateIsProduced ==
    in_kind = "mcedit" =>
        \A i \in 1..Len(in_blocks) :
            LET cell == MCEditCell(in_reader, in_blocks[i].position)
                decoded == convert_legacy_data_to_modern_properties(cell.id, cell.data)
            IN ("BlockIds" \notin DOMAIN in_reader.file /\ cell.id \in DecoderFamilies
                  /\ decoded.some)
                  => in_blocks[i].state = decoded.val

-----------------------------------------------------------------------------
(* Specification of the traversal of a boundary: a boundary and an axis order
   are chosen, then next and nth are called on boundary.iter(order) *)

MaxNth == 3                    \* largest argument passed to nth
IterExtents == {0, 1, 2}
IterMins == {Pos(0, 0, 0), Pos(-1, 2, 0)}

\* Boundary::new over the chosen corners and extents, zero extents included
IterBoundaries ==
    {NewBoundary(m.x, m.y, m.z, dx, dy, dz) :
        m \in IterMins, dx \in IterExtents, dy \in IterExtents, dz \in IterExtents}

\* Boundary::volume
volume(b) == b.d_x * b.d_y * b.d_z

\* the positions of b: min <= coordinate < min + d on every axis
PositionsOf(b) ==
    {Pos(x, y, z) : x \in b.min_x..(b.min_x + b.d_x - 1),
                    y \in b.min_y..(b.min_y + b.d_y - 1),
                    z \in b.min_z..(b.min_z + b.d_z - 1)}

InitIter ==
    /\ StoreIdle
    /\ StateIdle
    /\ CodecIdle
    /\ SharedIdle
    /\ MuxIdle
    /\ InputIdle
    /\ VarIntIdle
    /\ it_boundary \in IterBoundaries
    /\ it_order \in AxisOrders
    /\ it_iter = BoundaryIter(it_boundary)
    /\ it_shadow = BoundaryIter(it_boundary)
    /\ it_out = <<>>
    /\ it_mode = "fresh"
    /\ it_k = 0
    /\ it_last = NoCall

Yielded(out, item) == IF item = NoPos THEN out ELSE Append(out, item)

\* BoundaryIterator::next on the iterator under test
IterNextCall ==
    /\ it_mode # "none"
    /\ \E r \in {IterNext(it_boundary, it_order, it_iter)},
          e \in {IterNext(it_boundary, it_order, it_shadow)} :
          /\ it_iter' = r.it
          /\ it_shadow' = e.it
          /\ it_out' = Yielded(it_out, r.item)
          /\ it_last' = [op |-> "next", n |-> 0, item |-> r.item, expected |-> e.item]
    /\ it_mode' = IF it_mode = "fresh" THEN "next_only" ELSE it_mode
    /\ UNCHANGED <<it_boundary, it_order, it_k>>
    /\ UNCHANGED nonGeomVars

\* BoundaryIterator::nth on the iterator under test
IterNthCall(n) ==
    /\ it_mode # "none"
    /\ \E r \in {IterNth(it_boundary, it_order, it_iter, n)},
          e \in {NextAfter(it_boundary, it_order, it_shadow, n)} :
          /\ it_iter' = r.it
          /\ it_shadow' = e.it
          /\ it_out' = Yielded(it_out, r.item)
          /\ it_last' = [op |-> "nth", n |-> n, item |-> r.item, expected |-> e.item]
    /\ it_mode' = IF it_mode = "fresh" THEN "nth_first" ELSE "mixed"
    /\ it_k' = IF it_mode = "fresh" THEN n ELSE it_k
    /\ UNCHANGED <<it_boundary, it_order>>
    /\ UNCHANGED nonGeomVars

NextIter ==
    \/ IterNextCall
    \/ \E n \in 0..MaxNth : IterNthCall(n)

SpecIter == InitIter /\ [][NextIter]_vars

\* p comes before q in the lexicographic order of the coordinates arranged
\* by the axis order, the last axis varying fastest
LexLess(order, p, q) ==
    LET ax == axis(order)
    IN \/ select(p, ax[1]) < select(q, ax[1])
       \/ /\ select(p, ax[1]) = select(q, ax[1])
          /\ \/ select(p, ax[2]) < select(q, ax[2])
             \/ /\ select(p, ax[2]) = select(q, ax[2])
                /\ select(p, ax[3]) < select(q, ax[3])

\* C13: for every boundary B, one with a zero extent on some axis included,
\* and each of the six axis orders, B.iter(order) yields exactly volume(B)
\* positions, every one of them inside B, each position of B exactly once, in
\* lexicographic order of the coordinates arranged by the axis order.
C13_IterEnumeratesBoundary ==
    it_mode = "next_only" =>
        /\ Len(it_out) <= volume(it_boundary)
        /\ \A i \in 1..Len(it_out) : contains(it_boundary, it_out[i])
        /\ \A i \in 1..Len(it_out) : \A j \in 1..Len(it_out) :
              i < j => LexLess(it_order, it_out[i], it_out[j])
        /\ it_last.item = NoPos =>
              /\ Len(it_out) = volume(it_boundary)
              /\ \A p \in PositionsOf(it_boundary) : \E i \in 1..Len(it_out) : it_out[i] = p

\* C14: for every boundary B, axis order o and 0 <= k < volume(B), nth(k) on a
\* fresh B.iter(o) returns the position that discarding k results of next on
\* a fresh B.iter(o) and taking the following one returns, and the calls of
\* next after nth(k) return exactly the positions that follow it in the order.
C14_NthIsRepeatedNext ==
    (it_mode = "nth_first" /\ it_k < volume(it_boundary)) =>
        it_last.item = it_last.expected

C14_Witness ==
    /\ it_mode = "nth_first"
    /\ it_k = 2
    /\ volume(it_boundary) = 8
    /\ it_last.op = "next"
    /\ it_last.item # NoPos
    /\ Len(it_out) = 4
    /\ it_last.item = it_last.expected

-----------------------------------------------------------------------------
(* Specification of the functions of a boundary: a boundary and an axis order
   are chosen, then AxisOrder::index and Boundary::expand_to_include are
   applied to positions inside and outside of it *)

GeomPositions == {Pos(x, y, z) : x \in -1..1, y \in 0..3, z \in 0..2}

\* order.index(&p, &boundary)
Index(p) ==
    /\ it_mode # "none"
    /\ it_last' = [op |-> "index", pos |-> p, res |-> index(it_order, p, it_boundary)]
    /\ UNCHANGED <<it_boundary, it_order, it_iter, it_shadow, it_out, it_mode, it_k>>
    /\ UNCHANGED nonGeomVars

\* boundary.expand_to_include(&p)
ExpandToInclude(p) ==
    /\ it_mode # "none"
    /\ it_last' = [op |-> "expand_to_include", pos |-> p,
                   res |-> expand_to_include(it_boundary, p)]
    /\ UNCHANGED <<it_boundary, it_order, it_iter, it_shadow, it_out, it_mode, it_k>>
    /\ UNCHANGED nonGeomVars

NextGeom ==
    \/ \E p \in GeomPositions : Index(p)
    \/ \E p \in GeomPositions : ExpandToInclude(p)

SpecGeom == InitIter /\ [][NextGeom]_vars

\* C15: for every boundary B, axis order (a, b, c) and position p inside B,
\* AxisOrder::index(p, B) is ((p_a - m_a) * d_b + (p_b - m_b)) * d_c + (p_c - m_c),
\* which is the zero-based rank of p in B.iter of the same order, so that
\* index is a bijection from the positions of B onto 0..volume(B)-1.
C15_IndexIsRankInIter ==
    (it_last.op = "index" /\ contains(it_boundary, it_last.pos)) =>
        LET off(ax, i) == select(it_last.pos, ax[i]) - select_min(it_boundary, ax[i])
            Formula(ax) == (off(ax, 1) * select_dim(it_boundary, ax[2]) + off(ax, 2))
                              * select_dim(it_boundary, ax[3]) + off(ax, 3)
            RankIn(all) == /\ it_last.res \in 0..(Len(all) - 1)
                           /\ all[it_last.res + 1] = it_last.pos
        IN /\ it_last.res = Formula(axis(it_order))
           /\ RankIn(IterAll(it_boundary, it_order))
           /\ {index(it_order, q, it_boundary) : q \in PositionsOf(it_boundary)}
                 = 0..(volume(it_boundary) - 1)
           /\ \A q \in PositionsOf(it_boundary) :
                 index(it_order, q, it_boundary) = it_last.res => q = it_last.pos

C15_Witness ==
    /\ it_last.op = "index"
    /\ contains(it_boundary, it_last.pos)
    /\ it_order = "ZXY"
    /\ it_boundary = NewBoundary(-1, 2, 0, 2, 2, 2)
    /\ it_last.pos = Pos(0, 2, 1)
    /\ it_last.res = 6

SetMin(S) == CHOOSE m \in S : \A x \in S : m <= x
SetMax(S) == CHOOSE m \in S : \A x \in S : x <= m

\* C16: for every boundary B, one with zero extents included, and every
\* position p, B.expand_to_include(p) is the smallest boundary that contains
\* p and every position of B: it contains p, it contains all of B, no
\* boundary with a smaller extent on some axis does both, and it is B itself
\* when B already contains p.
C16_ExpandIsSmallestHull ==
    it_last.op = "expand_to_include" =>
        LET S == PositionsOf(it_boundary) \cup {it_last.pos}
            r == it_last.res
        IN /\ contains(r, it_last.pos)
           /\ \A q \in PositionsOf(it_boundary) : contains(r, q)
           /\ r.d_x = SetMax({q.x : q \in S}) - SetMin({q.x : q \in S}) + 1
           /\ r.d_y = SetMax({q.y : q \in S}) - SetMin({q.y : q \in S}) + 1
           /\ r.d_z = SetMax({q.z : q \in S}) - SetMin({q.z : q \in S}) + 1
           /\ contains(it_boundary, it_last.pos) => r = it_boundary

-----------------------------------------------------------------------------
(* Specification of the VarInt encoders and decoders: an i32 is chosen and
   encoded by one of the two encoders, or a byte string is chosen; then the
   two decoders are applied to the bytes *)

MaxVarIntLen == 6              \* longest byte string handed to a decoder
VarIntBytesIn == {0, 127, 128, 255}
VarIntValues ==
    {0, 1, 127, 128, 300, Pow2(14) - 1, Pow2(14), Pow2(21) - 1, Pow2(21), Pow2(28) - 1,
     Pow2(28), MaxI32, -1, -128, MinI32}
VarIntInputs == UNION {[1..n -> VarIntBytesIn] : n \in 0..MaxVarIntLen}

\* a call that never returns
NoReturn == [ok |-> FALSE, val |-> "no return"]

\* the loop of SpongeSchematicOutputStream::encode_var_int on any i32:
\* value & 0x7F, then the arithmetic shift value >>= 7.  The shift leaves -1
\* as it is, so from a negative value the loop never sees 0 and pushes
\* bytes without end.
RECURSIVE EncodeVarIntFrom(_, _)
EncodeVarIntFrom(value, bytes) ==
    LET shifted(value1) ==
            IF value1 = 0 THEN Ok(Append(bytes, value % 128))
            ELSE IF value1 = value THEN NoReturn
            ELSE EncodeVarIntFrom(value1, Append(bytes, (value % 128) + 128))
    IN shifted(value \div 128)

InitVarInt ==
    /\ StoreIdle
    /\ StateIdle
    /\ CodecIdle
    /\ SharedIdle
    /\ MuxIdle
    /\ InputIdle
    /\ GeomIdle
    /\ vi_from = "input"
    /\ vi_last = NoCall
    /\ \/ vi_value \in VarIntValues /\ vi_data = <<>>
       \/ vi_value = 0 /\ vi_data \in VarIntInputs

\* VXLSchematicOutputStream::write_var_int(vi_value) on a fresh writer
VxlWriteVarInt ==
    /\ vi_last = NoCall
    /\ \E w \in {write_var_int(VxlWriterNew("XYZ", CodecBoundary), vi_value)} :
          /\ vi_last' = [op |-> "vxl_write", res |-> IF w.panic THEN Panic ELSE Ok(w.out),
                         consumed |-> 0]
          /\ vi_data' = IF w.panic THEN vi_data ELSE w.out
          /\ vi_from' = IF w.panic THEN vi_from ELSE "vxl"
    /\ UNCHANGED <<vi_value, nonVarintVars>>

\* SpongeSchematicOutputStream::encode_var_int(vi_value)
SpongeEncodeVarInt ==
    /\ vi_last = NoCall
    /\ \E r \in {EncodeVarIntFrom(vi_value, <<>>)} :
          /\ vi_last' = [op |-> "sponge_encode", res |-> r, consumed |-> 0]
          /\ vi_data' = IF r.ok THEN r.val ELSE vi_data
          /\ vi_from' = IF r.ok THEN "sponge" ELSE vi_from
    /\ UNCHANGED <<vi_value, nonVarintVars>>

\* VXLSchematicInputStream::read_var_int over vi_data
VxlReadVarInt ==
    /\ vi_last.op \notin {"vxl_read", "sponge_read"}
    /\ vi_last.res.ok
    /\ \E r \in {read_var_int(VxlReaderNew(vi_data))} :
          vi_last' = [op |-> "vxl_read", res |-> r.res, consumed |-> r.rd.pos]
    /\ UNCHANGED <<vi_value, vi_data, vi_from, nonVarintVars>>

\* SpongeSchematicInputStream::read_var_int_array over vi_data, in a build
\* with or without overflow checks
SpongeReadVarIntArray ==
    /\ vi_last.op \notin {"vxl_read", "sponge_read"}
    /\ vi_last.res.ok
    /\ \E checks \in BOOLEAN :
          vi_last' = [op |-> "sponge_read", res |-> read_var_int_array(vi_data, checks),
                      consumed |-> 0]
    /\ UNCHANGED <<vi_value, vi_data, vi_from, nonVarintVars>>

NextVarInt ==
    \/ VxlWriteVarInt
    \/ SpongeEncodeVarInt
    \/ VxlReadVarInt
    \/ SpongeReadVarIntArray

SpecVarInt == InitVarInt /\ [][NextVarInt]_vars

\* the first five bytes of vi_data all have the continuation bit
FiveContinued == Len(vi_data) >= 5 /\ \A i \in 1..5 : vi_data[i] >= 128

\* C19: VarInt encodings are at most 5 bytes.  For every i32 the encoders
\* (VXL write_var_int, Sponge encode_var_int) return having emitted at most
\* 5 bytes, which the decoders decode back to the same value; and the
\* decoders (VXL read_var_int, Sponge read_var_int_array) return an error,
\* without consuming a 6th byte, when the 5th byte still has its
\* continuation bit set.
C19_VarIntAtMostFiveBytes ==
    /\ vi_last.op \in {"vxl_write", "sponge_encode"} =>
          vi_last.res.ok /\ Len(vi_last.res.val) <= 5
    /\ (vi_last.op = "vxl_read" /\ vi_from # "input") =>
          vi_last.res.ok /\ vi_last.res.val = vi_value
    /\ (vi_last.op = "sponge_read" /\ vi_from # "input") =>
          vi_last.res.ok /\ vi_last.res.val = <<vi_value>>
    /\ (vi_last.op \in {"vxl_read", "sponge_read"} /\ FiveContinued) =>
          /\ ~vi_last.res.ok
          /\ vi_last.res.val # "panic"
          /\ vi_last.consumed <= 5

-----------------------------------------------------------------------------
(* Specification of BlockState::from_string on its own: two strings, well
   formed or not, are chosen and parsed *)

sMod == <<"m","o","d">>
sProp == <<"[">> \o sA \o <<"=">> \o s1

sVariant == <<"v","a","r","i","a","n","t">>
sHardness == <<"h","a","r","d","n","e","s","s">>
Blanks == {<<>>, <<" ">>, <<" ", " ", " ">>}

\* "minecraft:stone[variant=granite,hardness=1]" with blanks between the name
\* and the bracket and around keys and values; the string of
\* test_block_state_parsing is one of them
Spaced(gap, k1, v1, v2, k2) ==
    minecraft \o COLON \o sStone \o gap \o <<"[">> \o sVariant \o k1 \o <<"=">> \o v1
        \o sGranite \o v2 \o <<",">> \o sHardness \o k2 \o <<"=">> \o s1 \o <<"]">>
SpacedInputs ==
    {Spaced(gap, <<>>, v1, v2, k2) : gap \in {<<>>, <<" ">>}, v1 \in {<<>>, <<" ">>},
                                    v2 \in {<<>>, <<" ">>}, k2 \in Blanks}
    \cup {Spaced(<<>>, <<" ">>, <<>>, <<>>, <<>>)}
\* the state all of them denote
SpacedState ==
    BlockStateNew(minecraft \o COLON \o sStone, << <<sVariant, sGranite>>, <<sHardness, s1>> >>)

\* well-formed states, names without or with a wrong namespace or with two
\* colons, each with and without a property list, the string of
\* test_illegal_block_state_parsing, and lists that lack the closing ']'
ParseInputs ==
    {minecraft \o COLON \o sStone,
     minecraft \o COLON \o sStone \o sProp \o <<"]">>,
     sStone,
     sStone \o sProp \o <<"]">>,
     sMod \o COLON \o sStone,
     sMod \o COLON \o sStone \o sProp \o <<"]">>,
     minecraft \o COLON \o sStone \o COLON \o sDirt,
     minecraft \o COLON \o sStone \o COLON \o sDirt \o sProp \o <<"]">>,
     minecraft \o COLON \o sStone \o <<" ">> \o sA \o <<"=">> \o s1 \o <<"]">>,
     minecraft \o COLON \o sStone \o <<"[">>,
     minecraft \o COLON \o sStone \o sProp,
     minecraft \o COLON \o sStone \o sProp \o s2,
     minecraft \o COLON \o sStone \o sProp \o <<"]">> \o s2}
    \cup SpacedInputs

InitParse ==
    /\ StoreIdle
    /\ CodecIdle
    /\ StreamsIdle
    /\ a_str \in ParseInputs /\ b_str \in ParseInputs
    /\ a_state = Err("unset") /\ b_state = Err("unset")
    /\ diff_str = <<>>
    /\ updated = Err("unset")
    /\ bs_pc = "input"

NextParse == FromString

SpecParse == InitParse /\ [][NextParse]_vars

\* the name portion of an input: what precedes its property list
NamePortion(input) ==
    IF StrContains(input, "[") THEN StrTo(input, FindFirst(input, {"["}) - 1) ELSE input

\* an input is malformed when its name portion does not contain exactly one
\* ':', when its namespace is not minecraft, or when it has a property list
\* that is not closed by ']'
Malformed(input) ==
    \/ CountChar(NamePortion(input), ":") # 1
    \/ Trim(NamespaceOf(NamePortion(input))) # minecraft
    \/ StrContains(input, "[") /\ input[Len(input)] # "]"

\* C20: BlockState::from_string returns an error value, never a state and
\* never a panic, for every malformed input: one whose name portion does not
\* contain exactly one ':', whose namespace is not minecraft, or whose
\* property list is not closed by ']', with or without a bracketed property
\* list.
C20_MalformedInputIsAnError ==
    bs_pc # "input" =>
        /\ Malformed(a_str) => ~a_state.ok /\ a_state.val # "panic"
        /\ Malformed(b_str) => ~b_state.ok /\ b_state.val # "panic"

\* C21: BlockState::from_string accepts blanks between the name and the
\* opening bracket and around property keys and values, as in
\* "minecraft:stone [variant= granite ,hardness   =1]": it returns the state
\* with the trimmed name and the trimmed keys and values in input order.
C21_BlanksAreAccepted ==
    bs_pc # "input" =>
        /\ a_str \in SpacedInputs => a_state.ok /\ a_state.val = SpacedState
        /\ b_str \in SpacedInputs => b_state.ok /\ b_state.val = SpacedState

====
